---- MODULE Spec2Model ----
(***************************************************************************)
(* The request path of the hcaas API gateway: the reverse-proxy engine     *)
(* (route resolution, bounded retries with cancellable backoff, response   *)
(* relay, error classification), the authentication gate and the           *)
(* per-client rate-limiter registry with its background sweep.             *)
(*                                                                         *)
(* Text is modelled as sequences of one-character strings, so that         *)
(* strings.HasPrefix, strings.Contains and the fmt.Errorf wrapping are     *)
(* computed character by character, as the Go code computes them.          *)
(***************************************************************************)
EXTENDS Integers, Sequences, FiniteSets, TLC

(***************************************************************************)
(* Bounds of the model.                                                    *)
(***************************************************************************)
\* the largest configured ServiceEndpoint.Retries explored
MaxRetries == 2

\* the number of requests that pass the rate limiter
MaxRequests == 3

\* the number of ticker periods the clock runs through
MaxIntervals == 3

\* the number of single ticks the clock makes inside a ticker period
MaxFineTicks == 1

\* the resolution of the clock: ticks to the second
TicksPerSecond == 2

\* the number of requests one client sends through the middleware chain
MaxFlood == 3

\* the number of WriteHeader and Write calls a handler makes on its writer
MaxWrites == 3

(***************************************************************************)
(* Text helpers: package strings and strconv.                              *)
(***************************************************************************)
\* strings.HasPrefix
HasPrefix(s, p) ==
    /\ Len(s) >= Len(p)
    /\ SubSeq(s, 1, Len(p)) = p

\* strings.TrimPrefix
TrimPrefix(s, p) ==
    IF HasPrefix(s, p) THEN SubSeq(s, Len(p) + 1, Len(s)) ELSE s

\* strings.Contains
Contains(s, sub) ==
    \E i \in 1..(Len(s) - Len(sub) + 1) : SubSeq(s, i, i + Len(sub) - 1) = sub

\* one decimal digit as a character
DigitChar(d) ==
    CASE d = 0 -> "0" [] d = 1 -> "1" [] d = 2 -> "2" [] d = 3 -> "3"
      [] d = 4 -> "4" [] d = 5 -> "5" [] d = 6 -> "6" [] d = 7 -> "7"
      [] d = 8 -> "8" [] d = 9 -> "9"

\* strconv.Itoa / the %d verb
RECURSIVE Itoa(_)
Itoa(n) ==
    IF n < 0 THEN << "-" >> \o Itoa(0 - n)
    ELSE IF n < 10 THEN << DigitChar(n) >>
    ELSE Append(Itoa(n \div 10), DigitChar(n % 10))

(***************************************************************************)
(* String literals of the source, character by character.                  *)
(***************************************************************************)
\* determineTarget's route prefixes, and the "/" it trims
RoutePrefix ==
    [ auth |->
          << "/", "a", "u", "t", "h", "/" >>,
      me |->
          << "/", "m", "e" >>,
      urls |->
          << "/", "u", "r", "l", "s" >>,
      notifications |->
          << "/", "n", "o", "t", "i", "f", "i", "c", "a", "t", "i", "o", "n", "s" >>,
      slash |->
          << "/" >> ]

\* the base URLs of ServicesConfig, the defaults of Load
BaseURL ==
    [ auth |->
          << "h", "t", "t", "p", ":", "/", "/", "h", "c", "a", "a", "s", "_", "a", "u", "t", "h", ":", "8", "0", "8", "1" >>,
      url |->
          << "h", "t", "t", "p", ":", "/", "/", "h", "c", "a", "a", "s", "_", "w", "e", "b", ":", "8", "0", "8", "0" >>,
      notification |->
          << "h", "t", "t", "p", ":", "/", "/", "h", "c", "a", "a", "s", "_", "n", "o", "t", "i", "f", "i", "c", "a", "t", "i", "o", "n", ":", "8", "0", "8", "2" >> ]

\* the fmt.Errorf texts of the proxy
Msg ==
    [ determine |->
          << "f", "a", "i", "l", "e", "d", " ", "t", "o", " ", "d", "e", "t", "e", "r", "m", "i", "n", "e", " ", "t", "a", "r", "g", "e", "t", ":", " " >>,
      noroute |->
          << "n", "o", " ", "r", "o", "u", "t", "e", " ", "f", "o", "u", "n", "d", " ", "f", "o", "r", " ", "p", "a", "t", "h", ":", " " >>,
      proxy |->
          << "f", "a", "i", "l", "e", "d", " ", "t", "o", " ", "p", "r", "o", "x", "y", " ", "r", "e", "q", "u", "e", "s", "t", ":", " " >>,
      exhausted |->
          << "a", "l", "l", " ", "r", "e", "t", "r", "y", " ", "a", "t", "t", "e", "m", "p", "t", "s", " ", "f", "a", "i", "l", "e", "d", ":", " " >>,
      retryable |->
          << "u", "p", "s", "t", "r", "e", "a", "m", " ", "r", "e", "t", "u", "r", "n", "e", "d", " ", "r", "e", "t", "r", "y", "a", "b", "l", "e", " ", "s", "t", "a", "t", "u", "s", ":", " " >>,
      create |->
          << "f", "a", "i", "l", "e", "d", " ", "t", "o", " ", "c", "r", "e", "a", "t", "e", " ", "p", "r", "o", "x", "y", " ", "r", "e", "q", "u", "e", "s", "t", ":", " " >>,
      readbody |->
          << "f", "a", "i", "l", "e", "d", " ", "t", "o", " ", "r", "e", "a", "d", " ", "r", "e", "q", "u", "e", "s", "t", " ", "b", "o", "d", "y", ":", " " >>,
      copy |->
          << "f", "a", "i", "l", "e", "d", " ", "t", "o", " ", "c", "o", "p", "y", " ", "r", "e", "s", "p", "o", "n", "s", "e", ":", " " >>,
      nilwrap |->
          << "%", "!", "w", "(", "<", "n", "i", "l", ">", ")" >> ]

\* the substrings handleProxyError looks for
Needle ==
    [ noroute |->
          << "n", "o", " ", "r", "o", "u", "t", "e", " ", "f", "o", "u", "n", "d" >>,
      timeout |->
          << "t", "i", "m", "e", "o", "u", "t" >>,
      connection |->
          << "c", "o", "n", "n", "e", "c", "t", "i", "o", "n" >> ]

\* error texts of the standard library (context, net, io, net/url)
Txt ==
    [ deadline |->
          << "c", "o", "n", "t", "e", "x", "t", " ", "d", "e", "a", "d", "l", "i", "n", "e", " ", "e", "x", "c", "e", "e", "d", "e", "d" >>,
      canceled |->
          << "c", "o", "n", "t", "e", "x", "t", " ", "c", "a", "n", "c", "e", "l", "e", "d" >>,
      refused |->
          << "d", "i", "a", "l", " ", "t", "c", "p", " ", "1", "0", ".", "0", ".", "0", ".", "2", ":", "8", "0", "8", "0", ":", " ", "c", "o", "n", "n", "e", "c", "t", ":", " ", "c", "o", "n", "n", "e", "c", "t", "i", "o", "n", " ", "r", "e", "f", "u", "s", "e", "d" >>,
      iotimeout |->
          << "d", "i", "a", "l", " ", "t", "c", "p", " ", "1", "0", ".", "0", ".", "0", ".", "2", ":", "8", "0", "8", "0", ":", " ", "i", "/", "o", " ", "t", "i", "m", "e", "o", "u", "t" >>,
      eof |->
          << "u", "n", "e", "x", "p", "e", "c", "t", "e", "d", " ", "E", "O", "F" >>,
      pipe |->
          << "w", "r", "i", "t", "e", " ", "t", "c", "p", " ", "1", "0", ".", "0", ".", "0", ".", "1", ":", "8", "0", "8", "0", "-", ">", "1", "0", ".", "0", ".", "0", ".", "9", ":", "5", "1", "0", "0", "0", ":", " ", "w", "r", "i", "t", "e", ":", " ", "b", "r", "o", "k", "e", "n", " ", "p", "i", "p", "e" >>,
      quote |->
          << "\"" >>,
      colon |->
          << ":", " " >>,
      space |->
          << " " >>,
      opGet |->
          << "G", "e", "t" >>,
      opPost |->
          << "P", "o", "s", "t" >> ]

\* the hop-by-hop header names of isHopByHopHeader
Hop ==
    [ connection |->
          << "C", "o", "n", "n", "e", "c", "t", "i", "o", "n" >>,
      keepAlive |->
          << "K", "e", "e", "p", "-", "A", "l", "i", "v", "e" >>,
      proxyAuthenticate |->
          << "P", "r", "o", "x", "y", "-", "A", "u", "t", "h", "e", "n", "t", "i", "c", "a", "t", "e" >>,
      proxyAuthorization |->
          << "P", "r", "o", "x", "y", "-", "A", "u", "t", "h", "o", "r", "i", "z", "a", "t", "i", "o", "n" >>,
      te |->
          << "T", "e" >>,
      trailers |->
          << "T", "r", "a", "i", "l", "e", "r", "s" >>,
      transferEncoding |->
          << "T", "r", "a", "n", "s", "f", "e", "r", "-", "E", "n", "c", "o", "d", "i", "n", "g" >>,
      upgrade |->
          << "U", "p", "g", "r", "a", "d", "e" >> ]

\* the header names the gateway reads or sets
Hdr ==
    [ xForwardedFor |->
          << "X", "-", "F", "o", "r", "w", "a", "r", "d", "e", "d", "-", "F", "o", "r" >>,
      xRealIP |->
          << "X", "-", "R", "e", "a", "l", "-", "I", "p" >>,
      xForwardedProto |->
          << "X", "-", "F", "o", "r", "w", "a", "r", "d", "e", "d", "-", "P", "r", "o", "t", "o" >>,
      xForwardedHost |->
          << "X", "-", "F", "o", "r", "w", "a", "r", "d", "e", "d", "-", "H", "o", "s", "t" >>,
      xGateway |->
          << "X", "-", "G", "a", "t", "e", "w", "a", "y" >>,
      contentType |->
          << "C", "o", "n", "t", "e", "n", "t", "-", "T", "y", "p", "e" >>,
      authorization |->
          << "A", "u", "t", "h", "o", "r", "i", "z", "a", "t", "i", "o", "n" >>,
      allowOrigin |->
          << "A", "c", "c", "e", "s", "s", "-", "C", "o", "n", "t", "r", "o", "l", "-", "A", "l", "l", "o", "w", "-", "O", "r", "i", "g", "i", "n" >>,
      allowMethods |->
          << "A", "c", "c", "e", "s", "s", "-", "C", "o", "n", "t", "r", "o", "l", "-", "A", "l", "l", "o", "w", "-", "M", "e", "t", "h", "o", "d", "s" >>,
      allowHeaders |->
          << "A", "c", "c", "e", "s", "s", "-", "C", "o", "n", "t", "r", "o", "l", "-", "A", "l", "l", "o", "w", "-", "H", "e", "a", "d", "e", "r", "s" >> ]

\* the header values the gateway sets
Val ==
    [ gateway |->
          << "h", "c", "a", "a", "s", "-", "g", "a", "t", "e", "w", "a", "y" >>,
      json |->
          << "a", "p", "p", "l", "i", "c", "a", "t", "i", "o", "n", "/", "j", "s", "o", "n" >>,
      star |->
          << "*" >>,
      corsMethods |->
          << "G", "E", "T", ",", " ", "P", "O", "S", "T", ",", " ", "P", "U", "T", ",", " ", "D", "E", "L", "E", "T", "E", ",", " ", "O", "P", "T", "I", "O", "N", "S" >>,
      corsHeaders |->
          << "A", "u", "t", "h", "o", "r", "i", "z", "a", "t", "i", "o", "n", ",", " ", "C", "o", "n", "t", "e", "n", "t", "-", "T", "y", "p", "e" >>,
      http |->
          << "h", "t", "t", "p" >>,
      https |->
          << "h", "t", "t", "p", "s" >> ]

\* values of the environment used by the inputs explored
Sample ==
    [ keepalive |->
          << "k", "e", "e", "p", "-", "a", "l", "i", "v", "e" >>,
      chunked |->
          << "c", "h", "u", "n", "k", "e", "d" >>,
      text |->
          << "t", "e", "x", "t", "/", "p", "l", "a", "i", "n" >>,
      host |->
          << "g", "w", ".", "e", "x", "a", "m", "p", "l", "e" >>,
      remote |->
          << "1", "0", ".", "0", ".", "0", ".", "9", ":", "5", "1", "0", "0", "0" >>,
      xff |->
          << "1", "0", ".", "0", ".", "0", ".", "9", ",", " ", "1", "0", ".", "0", ".", "0", ".", "1" >> ]

\* the request paths explored
Path ==
    [ authLogin |->
          << "/", "a", "u", "t", "h", "/", "l", "o", "g", "i", "n" >>,
      me |->
          << "/", "m", "e" >>,
      urls |->
          << "/", "u", "r", "l", "s" >>,
      urlsTimeout |->
          << "/", "u", "r", "l", "s", "/", "t", "i", "m", "e", "o", "u", "t" >>,
      notifications |->
          << "/", "n", "o", "t", "i", "f", "i", "c", "a", "t", "i", "o", "n", "s", "/", "7" >>,
      connection |->
          << "/", "c", "o", "n", "n", "e", "c", "t", "i", "o", "n" >>,
      authx |->
          << "/", "a", "u", "t", "h", "x" >> ]

\* strings.ToLower on one character (ASCII)
LowerChar(c) ==
    CASE c = "A" -> "a" [] c = "B" -> "b" [] c = "C" -> "c" [] c = "D" -> "d" [] c = "E" -> "e"
      [] c = "F" -> "f" [] c = "G" -> "g" [] c = "H" -> "h" [] c = "I" -> "i" [] c = "J" -> "j"
      [] c = "K" -> "k" [] c = "L" -> "l" [] c = "M" -> "m" [] c = "N" -> "n" [] c = "O" -> "o"
      [] c = "P" -> "p" [] c = "Q" -> "q" [] c = "R" -> "r" [] c = "S" -> "s" [] c = "T" -> "t"
      [] c = "U" -> "u" [] c = "V" -> "v" [] c = "W" -> "w" [] c = "X" -> "x" [] c = "Y" -> "y"
      [] c = "Z" -> "z"
      [] OTHER -> c

\* strings.ToLower
ToLower(s) ==
    [i \in 1..Len(s) |-> LowerChar(s[i])]

(***************************************************************************)
(* HTTP headers: a map from header name to the list of its values.         *)
(***************************************************************************)
\* the empty http.Header
NoHeaders == << >>

\* http.Header.Get: the first value of the name, or the empty string
HeaderGet(h, name) ==
    IF name \in DOMAIN h /\ Len(h[name]) > 0 THEN h[name][1] ELSE << >>

\* http.Header.Set: replace the values of the name by one value
HeaderSet(h, name, value) ==
    [n \in (DOMAIN h) \cup {name} |-> IF n = name THEN << value >> ELSE h[n]]

\* isHopByHopHeader's list
hopByHopHeaders ==
    << Hop.connection, Hop.keepAlive, Hop.proxyAuthenticate, Hop.proxyAuthorization,
       Hop.te, Hop.trailers, Hop.transferEncoding, Hop.upgrade >>

\* a comparison of the header name with the list that minds the case
isHopByHopHeaderExact(name) ==
    \E i \in 1..Len(hopByHopHeaders) : hopByHopHeaders[i] = name

\* ServiceProxy.isHopByHopHeader
isHopByHopHeader(name) ==
    \E i \in 1..Len(hopByHopHeaders) : ToLower(hopByHopHeaders[i]) = ToLower(name)

\* the header-copy loops of createProxyRequest and copyResponse: every value
\* of every name that is not hop-by-hop is added to dst
CopyHeaders(dst, src) ==
    LET kept == {n \in DOMAIN src : ~isHopByHopHeader(n)}
    IN  [n \in (DOMAIN dst) \cup kept |->
            (IF n \in DOMAIN dst THEN dst[n] ELSE << >>)
            \o (IF n \in kept THEN src[n] ELSE << >>)]

(***************************************************************************)
(* The reverse proxy: pure functions.                                      *)
(***************************************************************************)
\* the result of a failed resolution
NoTarget == [ok |-> FALSE, service |-> "", url |-> << >>]

\* determineTarget with a default case that routes to the URL service
determineTargetCatchAll(path) ==
    IF HasPrefix(path, RoutePrefix.auth) \/ HasPrefix(path, RoutePrefix.me)
    THEN [ok |-> TRUE, service |-> "auth",
          url |-> BaseURL.auth \o RoutePrefix.slash \o TrimPrefix(path, RoutePrefix.slash)]
    ELSE [ok |-> TRUE, service |-> "url", url |-> BaseURL.url \o path]

\* determineTarget with a /me rule that takes /me and the paths under /me/
determineTargetSegment(path) ==
    IF HasPrefix(path, RoutePrefix.auth) \/ path = RoutePrefix.me
          \/ HasPrefix(path, RoutePrefix.me \o RoutePrefix.slash)
    THEN [ok |-> TRUE, service |-> "auth",
          url |-> BaseURL.auth \o RoutePrefix.slash \o TrimPrefix(path, RoutePrefix.slash)]
    ELSE IF HasPrefix(path, RoutePrefix.urls)
    THEN [ok |-> TRUE, service |-> "url", url |-> BaseURL.url \o path]
    ELSE IF HasPrefix(path, RoutePrefix.notifications)
    THEN [ok |-> TRUE, service |-> "notification", url |-> BaseURL.notification \o path]
    ELSE NoTarget

\* ServiceProxy.determineTarget
determineTarget(path) ==
    IF HasPrefix(path, RoutePrefix.auth) \/ HasPrefix(path, RoutePrefix.me)
    THEN [ok |-> TRUE, service |-> "auth",
          url |-> BaseURL.auth \o RoutePrefix.slash \o TrimPrefix(path, RoutePrefix.slash)]
    ELSE IF HasPrefix(path, RoutePrefix.urls)
    THEN [ok |-> TRUE, service |-> "url", url |-> BaseURL.url \o path]
    ELSE IF HasPrefix(path, RoutePrefix.notifications)
    THEN [ok |-> TRUE, service |-> "notification", url |-> BaseURL.notification \o path]
    ELSE NoTarget

\* the services of ServicesConfig
Services == {"auth", "url", "notification"}

\* shouldRetry without the exception for 501
shouldRetryEvery5xx(statusCode) ==
    statusCode >= 500

\* ServiceProxy.shouldRetry
shouldRetry(statusCode) ==
    statusCode >= 500 /\ statusCode # 501

\* the loop condition with one iteration too many
LoopConditionOffByOne(att, r) ==
    att <= r + 1

\* the condition of the retry loop: attempt <= serviceConfig.Retries
LoopCondition(att, r) ==
    att <= r

\* a backoff follows the attempt: attempt < serviceConfig.Retries
BackoffFollows(att, r) ==
    att < r

\* the backoff without the +1
BackoffFromZero(att) ==
    att * 100

\* the backoff before the next attempt, in milliseconds
Backoff(att) ==
    (att + 1) * 100

\* a backoff that only sleeps, without the ctx.Done() case
SelectBackoffSleepOnly(ctx) ==
    "time.After"

\* a backoff select none of whose cases ever becomes ready
SelectBackoffNever(ctx) ==
    "none"

\* the select of the backoff, entered with a timer of at least 100 ms that
\* has not fired: the case whose channel is ready first is taken, ctx.Done()
\* when the parent context is done, else the timer
SelectBackoff(ctx) ==
    IF ctx # "none" THEN "ctx.Done" ELSE "time.After"

\* the index of the first occurrence of character c in s, 0 when there is none
IndexChar(s, c) ==
    IF \E i \in 1..Len(s) : s[i] = c
    THEN CHOOSE i \in 1..Len(s) : s[i] = c /\ \A j \in 1..(i - 1) : s[j] # c
    ELSE 0

\* strings.TrimSpace (blanks)
RECURSIVE TrimSpace(_)
TrimSpace(s) ==
    IF Len(s) > 0 /\ s[1] = " " THEN TrimSpace(Tail(s))
    ELSE IF Len(s) > 0 /\ s[Len(s)] = " " THEN TrimSpace(SubSeq(s, 1, Len(s) - 1))
    ELSE s

\* ServiceProxy.getClientIP
getClientIP(r) ==
    LET xff == HeaderGet(r.headers, Hdr.xForwardedFor)
        xri == HeaderGet(r.headers, Hdr.xRealIP)
        comma == IndexChar(xff, ",")
        colon == IndexChar(r.remoteAddr, ":")
    IN  IF xff # << >>
        THEN TrimSpace(IF comma = 0 THEN xff ELSE SubSeq(xff, 1, comma - 1))
        ELSE IF xri # << >> THEN xri
        ELSE IF colon # 0 THEN SubSeq(r.remoteAddr, 1, colon - 1)
        ELSE r.remoteAddr

\* ServiceProxy.getScheme
getScheme(r) ==
    IF r.tls THEN Val.https
    ELSE IF HeaderGet(r.headers, Hdr.xForwardedProto) # << >>
    THEN HeaderGet(r.headers, Hdr.xForwardedProto)
    ELSE Val.http

\* the headers of the upstream request built by createProxyRequest
ProxyRequestHeaders(r) ==
    HeaderSet(HeaderSet(HeaderSet(HeaderSet(CopyHeaders(NoHeaders, r.headers),
        Hdr.xForwardedFor, getClientIP(r)),
        Hdr.xForwardedProto, getScheme(r)),
        Hdr.xForwardedHost, r.host),
        Hdr.xGateway, Val.gateway)

(***************************************************************************)
(* Errors.  An error is kept as a record of what it wraps; ErrorString     *)
(* computes the text err.Error() returns.                                  *)
(***************************************************************************)
\* no error (nil)
NilErr == [kind |-> "nil", status |-> 0, cause |-> ""]

\* fmt.Errorf("upstream returned retryable status: %d", resp.StatusCode)
StatusErr(code) == [kind |-> "status", status |-> code, cause |-> ""]

\* the error client.Do returned: a *url.Error around the cause
NetErr(cause) == [kind |-> "net", status |-> 0, cause |-> cause]

\* the text of the causes the environment produces
CauseText(cause) ==
    CASE cause = "deadline" -> Txt.deadline
      [] cause = "canceled" -> Txt.canceled
      [] cause = "refused" -> Txt.refused
      [] cause = "iotimeout" -> Txt.iotimeout
      [] cause = "eof" -> Txt.eof
      [] cause = "pipe" -> Txt.pipe

\* the Op of the *url.Error of client.Do: the method, first letter upper case
UrlErrorOp(method) ==
    IF method = "GET" THEN Txt.opGet ELSE Txt.opPost

\* (*url.Error).Error: Op "URL": Err
UrlErrorText(method, url, cause) ==
    UrlErrorOp(method) \o Txt.space \o Txt.quote \o url \o Txt.quote \o Txt.colon
        \o CauseText(cause)

\* lastErr.Error() as the %w verb prints it
LastErrText(e, method, url) ==
    CASE e.kind = "status" -> Msg.retryable \o Itoa(e.status)
      [] e.kind = "net" -> UrlErrorText(method, url, e.cause)
      [] e.kind = "nil" -> Msg.nilwrap

\* no error returned by ProxyRequest
NoProxyErr == [kind |-> "none", last |-> NilErr, cause |-> ""]

\* the errors ProxyRequest returns
RouteErr == [kind |-> "noroute", last |-> NilErr, cause |-> ""]
ExhaustedErr(last) == [kind |-> "exhausted", last |-> last, cause |-> ""]
ContextErr(cause) == [kind |-> "ctx", last |-> NilErr, cause |-> cause]
CreateErr(cause) == [kind |-> "create", last |-> NilErr, cause |-> cause]
CopyErr(cause) == [kind |-> "copy", last |-> NilErr, cause |-> cause]

\* err.Error() of the error ProxyRequest returns
ErrorString(e, method, path, url) ==
    CASE e.kind = "noroute" -> Msg.determine \o Msg.noroute \o path
      [] e.kind = "exhausted" ->
            Msg.proxy \o Msg.exhausted \o LastErrText(e.last, method, url)
      [] e.kind = "ctx" -> Msg.proxy \o CauseText(e.cause)
      [] e.kind = "create" -> Msg.proxy \o Msg.create \o Msg.readbody \o CauseText(e.cause)
      [] e.kind = "copy" -> Msg.copy \o CauseText(e.cause)

\* a classification whose default message repeats the text ProxyRequest
\* wraps its errors in
ClassifyProxyErrorVerbose(errStr) ==
    IF Contains(errStr, Needle.noroute)
    THEN [status |-> 404, error |-> "Endpoint not found", code |-> "ROUTE_NOT_FOUND"]
    ELSE IF Contains(errStr, Needle.timeout)
    THEN [status |-> 504, error |-> "Request timeout", code |-> "TIMEOUT_ERROR"]
    ELSE IF Contains(errStr, Needle.connection)
    THEN [status |-> 502, error |-> "Upstream service unavailable",
          code |-> "SERVICE_UNAVAILABLE"]
    ELSE [status |-> 500, error |-> "failed to proxy request: all retry attempts failed",
          code |-> "PROXY_ERROR"]

\* GatewayHandler.handleProxyError: the classification of the error text
ClassifyProxyError(errStr) ==
    IF Contains(errStr, Needle.noroute)
    THEN [status |-> 404, error |-> "Endpoint not found", code |-> "ROUTE_NOT_FOUND"]
    ELSE IF Contains(errStr, Needle.timeout)
    THEN [status |-> 504, error |-> "Request timeout", code |-> "TIMEOUT_ERROR"]
    ELSE IF Contains(errStr, Needle.connection)
    THEN [status |-> 502, error |-> "Upstream service unavailable",
          code |-> "SERVICE_UNAVAILABLE"]
    ELSE [status |-> 500, error |-> "Internal server error", code |-> "PROXY_ERROR"]

(***************************************************************************)
(* The client's http.ResponseWriter.                                       *)
(***************************************************************************)
\* a response writer nothing was written to
NewWriter == [wroteHeader |-> FALSE, status |-> 0, headers |-> NoHeaders,
              sent |-> NoHeaders, body |-> << >>]

\* ResponseWriter.WriteHeader: the first call sends the status and the
\* headers set so far, later calls are ignored
WriteHeader(wr, code) ==
    IF wr.wroteHeader THEN wr
    ELSE [wr EXCEPT !.wroteHeader = TRUE, !.status = code, !.sent = wr.headers]

\* ResponseWriter.Write: an implicit WriteHeader(200), then the bytes
Write(wr, chunk) ==
    LET w1 == WriteHeader(wr, 200)
    IN  [w1 EXCEPT !.body = Append(@, chunk)]

\* w.Header().Set
SetHeader(wr, name, value) ==
    [wr EXCEPT !.headers = HeaderSet(@, name, value)]

\* the JSON error body the gateway writes
ErrorBody(msg, c) == [kind |-> "json", error |-> msg, code |-> c, complete |-> TRUE]

\* the upstream body relayed by io.Copy, all of it or a part
UpstreamBody(all) == [kind |-> "upstream", error |-> "", code |-> "", complete |-> all]

\* GatewayHandler.handleProxyError: the headers, the status and the JSON body
handleProxyError(wr, errStr) ==
    LET c == ClassifyProxyError(errStr)
        w1 == SetHeader(SetHeader(SetHeader(SetHeader(wr,
                  Hdr.allowOrigin, Val.star), Hdr.allowMethods, Val.corsMethods),
                  Hdr.allowHeaders, Val.corsHeaders), Hdr.contentType, Val.json)
    IN  Write(WriteHeader(w1, c.status), ErrorBody(c.error, c.code))

(***************************************************************************)
(* State.                                                                  *)
(***************************************************************************)
VARIABLES
    \* --- the proxied request (ProxyHandler, ProxyRequest, proxyWithRetries)
    req,          \* the inbound *http.Request as it arrived
    retries,      \* serviceConfig.Retries of the resolved service
    pc,           \* where the handler's goroutine is
    target,       \* determineTarget's result
    attempt,      \* the loop variable of proxyWithRetries
    lastErr,      \* lastErr of proxyWithRetries
    ctxErr,       \* ctx.Err() of the parent request context
    doCtx,        \* ctx.Err() at the moment client.Do was called
    attemptCtx,   \* the per-attempt context reqCtx
    origBody,     \* originalReq.Body
    streamReads,  \* how often the inbound body stream was read
    upReq,        \* the upstream request of the current attempt
    outcomes,     \* what each client.Do returned, in order
    trace,        \* the attempts and backoff sleeps, in order
    upResp,       \* the response proxyWithRetries returned
    perr,         \* the error ProxyRequest returned
    w,            \* the client's response writer
    gauge,        \* upstream_requests_in_flight, per service
    errMetrics    \* the RecordError calls, in order

proxyVars ==
    << req, retries, pc, target, attempt, lastErr, ctxErr, doCtx, attemptCtx,
       origBody, streamReads, upReq, outcomes, trace, upResp, perr, w, gauge,
       errMetrics >>

VARIABLES
    \* --- the request at the authentication gate (AuthMiddleware.Middleware)
    aReq,         \* the inbound request: its path and headers
    aPc,          \* where the middleware's handler is
    aExtract,     \* what ExtractTokenFromHeader returned
    aVerdict,     \* what ValidateToken returned
    aCalls,       \* how often ValidateToken was called
    aNext,        \* how often next.ServeHTTP was invoked
    aUser,        \* the user context attached to the request context
    aW,           \* the client's response writer
    aMetrics      \* the RecordAuthValidation results, in order

authVars ==
    << aReq, aPc, aExtract, aVerdict, aCalls, aNext, aUser, aW, aMetrics >>

VARIABLES
    \* --- the rate limiter (RateLimitMiddleware) and its requests
    requestsPerSecond, \* rl.requestsPerSecond
    burstSize,    \* rl.burstSize
    now,          \* the monotonic clock, in ticks
    limiters,     \* rl.limiters: client identifier -> limiter
    lastAccess,   \* rl.lastAccess: client identifier -> time
    lims,         \* the rate.Limiter objects created so far, by identity
    rq,           \* the requests in the middleware, one handler goroutine each
    hits,         \* rate_limit_hits_total, per (client_ip, path)
    active,       \* rate_limit_active as last set by cleanup
    tickPending,  \* cleanupTicker.C holds a tick
    tickerStopped,\* cleanupTicker.Stop() was called
    stopCleanup,  \* the stopCleanup channel: "open" or "closed"
    sweeper,      \* the goroutine of startCleanup: "running" or "exited"
    admitted      \* per client, the admissions since the clock last advanced

rlVars ==
    << requestsPerSecond, burstSize, now, limiters, lastAccess, lims, rq, hits,
       active, tickPending, tickerStopped, stopCleanup, sweeper, admitted >>

\* the middleware chain of the router: one request at a time on its way down
\* the chain and back
VARIABLES
    plCfg,        \* cfg.Observability.TracingEnabled and cfg.RateLimit.Enabled
    plBurst,      \* cfg.RateLimit.BurstSize
    plReq,        \* the request being served
    plStack,      \* the handlers entered and not yet returned, outermost first
    plPc,         \* "idle", "down" (the innermost handler runs) or "up"
    plTrace,      \* the enter and exit events of the request, in order
    plW,          \* the client's response writer
    plLim,        \* the rate.Limiter of the client
    plCalls,      \* per request: calls of ValidateToken, ProxyHandler, upstream
    plDrawn,      \* tokens the request took from the client's bucket
    plServed,     \* the requests served so far
    plRec         \* the responseWriter and tracingResponseWriter around plW, and
                  \* the calls made on the innermost of them

plVars ==
    << plCfg, plBurst, plReq, plStack, plPc, plTrace, plW, plLim, plCalls, plDrawn,
       plServed, plRec >>

vars == << proxyVars, authVars, rlVars, plVars >>

(***************************************************************************)
(* The inputs explored.                                                    *)
(***************************************************************************)
\* Retries is any int the environment holds: Load does not validate it
RetriesValues == (0 - 1)..MaxRetries

\* the request paths explored
RequestPaths ==
    { Path.authLogin, Path.me, Path.urls, Path.urlsTimeout, Path.notifications,
      Path.connection, Path.authx,
      << "/", "m", "e", "t", "r", "i", "c", "s" >>,
      << "/", "u", "r", "l", "s", "x", "/", "a", "u", "t", "h", "/" >>,
      << "/", "n", "o", "t", "i", "f", "i", "c", "a", "t", "i", "o", "n" >> }

\* the inbound bodies explored: none (Body == nil), empty, two bytes, and a
\* stream that fails while it is read
BodyShapes ==
    { [hasBody |-> FALSE, body |-> << >>, broken |-> FALSE],
      [hasBody |-> TRUE, body |-> << >>, broken |-> FALSE],
      [hasBody |-> TRUE, body |-> << 104, 105 >>, broken |-> FALSE],
      [hasBody |-> TRUE, body |-> << 104, 105 >>, broken |-> TRUE] }

\* the inbound headers explored: an end-to-end header, a hop-by-hop header and
\* a forwarded-for chain
InboundHeaders ==
    (Hdr.contentType :> << Val.json >>) @@ (Hop.connection :> << Sample.keepalive >>)
        @@ (Hdr.xForwardedFor :> << Sample.xff >>)

\* further header maps explored in either direction: the eight hop-by-hop
\* names as the list spells them, beside a header with two values and a name
\* that continues none of them; and hop-by-hop names in other spellings,
\* beside a header the proxy sets itself
HeaderSets ==
    { (Hop.connection :> << Sample.keepalive >>) @@ (Hop.keepAlive :> << << "t", "i", "m", "e", "o", "u", "t", "=", "5" >> >>)
        @@ (Hop.proxyAuthenticate :> << << "B", "a", "s", "i", "c" >> >>)
        @@ (Hop.proxyAuthorization :> << << "B", "a", "s", "i", "c", " ", "e", "A", "=", "=" >> >>)
        @@ (Hop.te :> << << "t", "r", "a", "i", "l", "e", "r", "s" >> >>) @@ (Hop.trailers :> << << "E", "x", "p", "i", "r", "e", "s" >> >>)
        @@ (Hop.transferEncoding :> << Sample.chunked >>)
        @@ (Hop.upgrade :> << << "w", "e", "b", "s", "o", "c", "k", "e", "t" >> >>)
        @@ (<< "A", "c", "c", "e", "p", "t" >> :> << Val.json, Sample.text >>)
        @@ (<< "T", "r", "a", "i", "l", "e", "r" >> :> << << "E", "x", "p", "i", "r", "e", "s" >> >>),
      (<< "c", "o", "n", "n", "e", "c", "t", "i", "o", "n" >> :> << << "c", "l", "o", "s", "e" >> >>) @@ (<< "K", "E", "E", "P", "-", "A", "L", "I", "V", "E" >> :> << << "t", "i", "m", "e", "o", "u", "t", "=", "5" >> >>)
        @@ (<< "T", "E" >> :> << << "t", "r", "a", "i", "l", "e", "r", "s" >>, << "g", "z", "i", "p" >> >>) @@ (<< "t", "e" >> :> << << "t", "r", "a", "i", "l", "e", "r", "s" >> >>)
        @@ (<< "T", "r", "a", "n", "s", "f", "e", "r", "-", "e", "n", "c", "o", "d", "i", "n", "g" >> :> << Sample.chunked >>)
        @@ (<< "U", "P", "G", "R", "A", "D", "E" >> :> << << "w", "e", "b", "s", "o", "c", "k", "e", "t" >> >>)
        @@ (<< "p", "r", "o", "x", "y", "-", "a", "u", "t", "h", "o", "r", "i", "z", "a", "t", "i", "o", "n" >> :> << << "B", "a", "s", "i", "c", " ", "e", "A", "=", "=" >> >>)
        @@ (Hdr.xGateway :> << << "o", "t", "h", "e", "r" >> >>)
        @@ (<< "S", "e", "t", "-", "C", "o", "o", "k", "i", "e" >> :> << << "a", "=", "1" >>, << "b", "=", "2" >> >>) }

\* the upstream's response headers explored
UpstreamHeaders ==
    (Hdr.contentType :> << Sample.text >>) @@ (Hop.transferEncoding :> << Sample.chunked >>)

\* an inbound request
Request(p, b) ==
    [method |-> IF b.hasBody /\ b.body # << >> THEN "POST" ELSE "GET",
     path |-> p, host |-> Sample.host, hasBody |-> b.hasBody, body |-> b.body,
     broken |-> b.broken, headers |-> InboundHeaders, remoteAddr |-> Sample.remote,
     tls |-> FALSE, query |-> << >>]

\* the inbound requests explored: every path with a two-byte body, and every
\* body shape and every header map on one routed path, and two routed paths
\* with the query string a=1 (r.URL.RawQuery)
Requests ==
    { Request(p, [hasBody |-> TRUE, body |-> << 104, 105 >>, broken |-> FALSE]) :
          p \in RequestPaths }
      \cup { Request(Path.urls, b) : b \in BodyShapes }
      \cup { [Request(Path.urls, [hasBody |-> FALSE, body |-> << >>, broken |-> FALSE])
                 EXCEPT !.headers = h] : h \in HeaderSets }
      \cup { [Request(p, [hasBody |-> FALSE, body |-> << >>, broken |-> FALSE])
                 EXCEPT !.query = << "a", "=", "1" >>] : p \in {Path.urls, Path.authLogin} }

\* the status codes the upstream answers with
Statuses == {200, 499, 500, 501, 503}

\* the ways client.Do fails by itself: connection refused, dial timeout, and
\* the per-attempt timeout of context.WithTimeout expiring
NetCauses == {"refused", "iotimeout", "deadline"}

\* what client.Do returns
RespOutcome(code) == [kind |-> "resp", status |-> code, cause |-> ""]
ErrOutcome(cause) == [kind |-> "err", status |-> 0, cause |-> cause]

\* the outcomes client.Do can have: with the parent context done before the
\* call it fails at once with ctx.Err(); with the parent context done during
\* the call it returns that error or what the upstream delivered first
DoOutcomes(ctxAtCall, ctxNow) ==
    IF ctxAtCall # "none" THEN { ErrOutcome(ctxAtCall) }
    ELSE { RespOutcome(s) : s \in Statuses } \cup { ErrOutcome(c) : c \in NetCauses }
            \cup (IF ctxNow # "none" THEN { ErrOutcome(ctxNow) } ELSE {})

\* an outcome the loop goes on after
Retryable(o) ==
    o.kind = "err" \/ shouldRetry(o.status)

\* a loop that keeps the error of the first failed attempt
SaveFirstErr(prev, o) ==
    IF prev.kind # "nil" THEN prev
    ELSE IF o.kind = "resp" THEN StatusErr(o.status) ELSE NetErr(o.cause)

\* lastErr after an attempt that is retried: the error of client.Do, or the
\* error made of the retryable status
SaveLastErr(prev, o) ==
    IF o.kind = "resp" THEN StatusErr(o.status) ELSE NetErr(o.cause)

\* a cancel() that is called only when the attempt is retried
cancelOnRetry(o) ==
    IF Retryable(o) THEN "cancelled" ELSE "live"

\* reqCtx after client.Do returned o: cancel() is called on the next line,
\* whatever o is
cancel(o) ==
    "cancelled"

\* events of the trace
AttemptEvent(n) == [ev |-> "attempt", n |-> n, ms |-> 0]
SleepEvent(ms) == [ev |-> "sleep", n |-> 0, ms |-> ms]

\* no upstream request, no upstream response
NoUpReq == [built |-> FALSE, method |-> "", url |-> << >>, hasBody |-> FALSE,
            body |-> << >>, headers |-> NoHeaders]
NoUpResp == [present |-> FALSE, status |-> 0, headers |-> NoHeaders]

\* a reader over the inbound request's body
BodyReader(r) ==
    [open |-> r.hasBody, data |-> r.body, pos |-> 0, broken |-> r.broken,
     stream |-> TRUE]

\* what is left to read of a reader
Remaining(b) == SubSeq(b.data, b.pos + 1, Len(b.data))

\* the original body left as io.ReadAll leaves it: at its end
ReplayReaderConsumed(bytes) ==
    [open |-> TRUE, data |-> bytes, pos |-> Len(bytes), broken |-> FALSE,
     stream |-> FALSE]

\* bytes.NewReader(bodyBytes) behind io.NopCloser
ReplayReader(bytes) ==
    [open |-> TRUE, data |-> bytes, pos |-> 0, broken |-> FALSE, stream |-> FALSE]

(***************************************************************************)
(* Init.                                                                   *)
(***************************************************************************)
InitProxy ==
    /\ req \in Requests
    /\ retries \in RetriesValues
    /\ pc = "start"
    /\ target = NoTarget
    /\ attempt = 0
    /\ lastErr = NilErr
    /\ ctxErr = "none"
    /\ doCtx = "none"
    /\ attemptCtx = "none"
    /\ origBody = BodyReader(req)
    /\ streamReads = 0
    /\ upReq = NoUpReq
    /\ outcomes = << >>
    /\ trace = << >>
    /\ upResp = NoUpResp
    /\ perr = NoProxyErr
    /\ w = NewWriter
    /\ gauge = [s \in Services |-> 0]
    /\ errMetrics = << >>

(***************************************************************************)
(* Actions of the proxied request.                                         *)
(***************************************************************************)
\* a return of ProxyRequest that leaves the in-flight gauge as it is
ReturnErrorNoEnd(e, metric) ==
    /\ perr' = e
    /\ errMetrics' = Append(errMetrics, metric)
    /\ UNCHANGED gauge
    /\ pc' = "failed"

\* ProxyRequest returns err: RecordError, the deferred RecordUpstreamRequestEnd
ReturnError(e, metric) ==
    /\ perr' = e
    /\ errMetrics' = Append(errMetrics, metric)
    /\ gauge' = [gauge EXCEPT ![target.service] = @ - 1]
    /\ pc' = "failed"

\* ProxyHandler calls ProxyRequest: determineTarget, getServiceConfig,
\* RecordUpstreamRequestStart
ProxyStart ==
    /\ UNCHANGED << authVars, rlVars, plVars >>
    /\ pc = "start"
    /\ LET t == determineTarget(req.path)
       IN  IF ~t.ok
           THEN /\ perr' = RouteErr
                /\ errMetrics' = Append(errMetrics, "validation")
                /\ pc' = "failed"
                /\ UNCHANGED << target, gauge >>
           ELSE /\ target' = t
                /\ gauge' = [gauge EXCEPT ![t.service] = @ + 1]
                /\ pc' = "loop"
                /\ UNCHANGED << perr, errMetrics >>
    /\ UNCHANGED << req, retries, attempt, lastErr, ctxErr, doCtx, attemptCtx,
                    origBody, streamReads, upReq, outcomes, trace, upResp, w >>

\* the head of the retry loop: leave it when attempt > Retries, else
\* createProxyRequest, context.WithTimeout and the call of client.Do
LoopHead ==
    /\ UNCHANGED << authVars, rlVars, plVars >>
    /\ pc = "loop"
    /\ IF ~LoopCondition(attempt, retries)
       THEN /\ ReturnError(ExhaustedErr(lastErr), "upstream")
            /\ UNCHANGED << origBody, streamReads, upReq, trace, doCtx, attemptCtx >>
       ELSE IF origBody.open /\ origBody.broken
       THEN \* io.ReadAll fails: no request is built
            /\ ReturnError(CreateErr("eof"), "upstream")
            /\ origBody' = [origBody EXCEPT !.pos = Len(origBody.data)]
            /\ streamReads' = streamReads + 1
            /\ UNCHANGED << upReq, trace, doCtx, attemptCtx >>
       ELSE /\ IF origBody.open
               THEN /\ origBody' = ReplayReader(Remaining(origBody))
                    /\ streamReads' = streamReads + (IF origBody.stream THEN 1 ELSE 0)
               ELSE UNCHANGED << origBody, streamReads >>
            /\ upReq' = [built |-> TRUE, method |-> req.method, url |-> target.url,
                         hasBody |-> origBody.open,
                         body |-> IF origBody.open THEN Remaining(origBody) ELSE << >>,
                         headers |-> ProxyRequestHeaders(req)]
            /\ trace' = Append(trace, AttemptEvent(attempt + 1))
            /\ doCtx' = ctxErr
            /\ attemptCtx' = "live"
            /\ pc' = "do"
            /\ UNCHANGED << perr, errMetrics, gauge >>
    /\ UNCHANGED << req, retries, target, attempt, lastErr, ctxErr, outcomes, upResp, w >>

\* client.Do returns and cancel() is called: a non-retryable response is
\* returned, anything else is remembered in lastErr and followed by the backoff
\* (attempt < Retries) or by the next evaluation of the loop condition
AttemptReturns ==
    /\ UNCHANGED << authVars, rlVars, plVars >>
    /\ pc = "do"
    /\ \E o \in DoOutcomes(doCtx, ctxErr), hs \in {UpstreamHeaders} \cup HeaderSets :
        /\ outcomes' = Append(outcomes, o)
        /\ attemptCtx' = cancel(o)
        /\ IF ~Retryable(o)
           THEN /\ upResp' = [present |-> TRUE, status |-> o.status, headers |-> hs]
                /\ pc' = "relay"
                /\ UNCHANGED << lastErr, attempt, trace >>
           ELSE /\ lastErr' = SaveLastErr(lastErr, o)
                /\ UNCHANGED upResp
                /\ IF BackoffFollows(attempt, retries)
                   THEN /\ trace' = Append(trace, SleepEvent(Backoff(attempt)))
                        /\ pc' = "backoff"
                        /\ UNCHANGED attempt
                   ELSE /\ attempt' = attempt + 1
                        /\ pc' = "loop"
                        /\ UNCHANGED trace
    /\ UNCHANGED << req, retries, target, ctxErr, doCtx, origBody, streamReads,
                    upReq, perr, w, gauge, errMetrics >>

\* the select of the backoff: the timer fires while the parent context is
\* live, and the loop goes to its next attempt
BackoffElapsed ==
    /\ UNCHANGED << authVars, rlVars, plVars >>
    /\ pc = "backoff"
    /\ SelectBackoff(ctxErr) = "time.After"
    /\ attempt' = attempt + 1
    /\ pc' = "loop"
    /\ UNCHANGED << req, retries, target, lastErr, ctxErr, doCtx, attemptCtx,
                    origBody, streamReads, upReq, outcomes, trace, upResp, perr, w,
                    gauge, errMetrics >>

\* the select of the backoff: ctx.Done() is ready, proxyWithRetries returns
\* ctx.Err()
BackoffCancelled ==
    /\ UNCHANGED << authVars, rlVars, plVars >>
    /\ pc = "backoff"
    /\ SelectBackoff(ctxErr) = "ctx.Done"
    /\ ReturnError(ContextErr(ctxErr), "upstream")
    /\ UNCHANGED << req, retries, target, attempt, lastErr, ctxErr, doCtx,
                    attemptCtx, origBody, streamReads, upReq, outcomes, trace,
                    upResp, w >>

\* ProxyRequest relays the response: copyResponse copies the headers, writes
\* the status and streams the body; the copy ends well, or fails because the
\* body's context is cancelled or the client is gone
Relay ==
    /\ UNCHANGED << authVars, rlVars, plVars >>
    /\ pc = "relay"
    /\ \E copy \in {"ok", "canceled", "pipe"} :
        LET w1 == [w EXCEPT !.headers = CopyHeaders(@, upResp.headers)]
            w2 == WriteHeader(w1, upResp.status)
        IN  /\ w' = [w2 EXCEPT !.body = Append(@, UpstreamBody(copy = "ok"))]
            /\ IF copy = "ok"
               THEN /\ gauge' = [gauge EXCEPT ![target.service] = @ - 1]
                    /\ pc' = "done"
                    /\ UNCHANGED << perr, errMetrics >>
               ELSE ReturnError(CopyErr(copy), "internal")
    /\ UNCHANGED << req, retries, target, attempt, lastErr, ctxErr, doCtx,
                    attemptCtx, origBody, streamReads, upReq, outcomes, trace, upResp >>

\* ProxyHandler on an error of ProxyRequest: LogError, RecordError, and
\* handleProxyError's headers, status and JSON body
HandleError ==
    /\ UNCHANGED << authVars, rlVars, plVars >>
    /\ pc = "failed"
    /\ w' = handleProxyError(w, ErrorString(perr, req.method, req.path, target.url))
    /\ errMetrics' = Append(errMetrics, "upstream")
    /\ pc' = "done"
    /\ UNCHANGED << req, retries, target, attempt, lastErr, ctxErr, doCtx,
                    attemptCtx, origBody, streamReads, upReq, outcomes, trace,
                    upResp, perr, gauge >>

\* the parent request context is cancelled (client gone) or its deadline
\* passes (the 60 s of middleware.Timeout) while the request is handled
CancelParent ==
    /\ UNCHANGED << authVars, rlVars, plVars >>
    /\ pc \in {"start", "loop", "do", "backoff", "relay"}
    /\ ctxErr = "none"
    /\ ctxErr' \in {"canceled", "deadline"}
    /\ UNCHANGED << req, retries, pc, target, attempt, lastErr, doCtx, attemptCtx,
                    origBody, streamReads, upReq, outcomes, trace, upResp, perr, w,
                    gauge, errMetrics >>

(***************************************************************************)
(* The authentication gate: AuthMiddleware and package auth.               *)
(***************************************************************************)
\* NewAuthMiddleware's publicPaths, in the order of the source
publicPaths ==
    << << "/", "a", "u", "t", "h", "/", "r", "e", "g", "i", "s", "t", "e", "r" >>,
       << "/", "a", "u", "t", "h", "/", "l", "o", "g", "i", "n" >>,
       << "/", "a", "u", "t", "h", "/", "v", "a", "l", "i", "d", "a", "t", "e" >>,
       << "/", "h", "e", "a", "l", "t", "h", "z" >>,
       << "/", "h", "e", "a", "l", "t", "h" >>,
       << "/", "r", "e", "a", "d", "y", "z" >>,
       << "/", "m", "e", "t", "r", "i", "c", "s" >> >>

\* a path check that asks for the whole path to be an entry of the list
isPublicPathExact(path) ==
    \E i \in 1..Len(publicPaths) : path = publicPaths[i]

\* AuthMiddleware.isPublicPath
isPublicPath(path) ==
    \E i \in 1..Len(publicPaths) : HasPrefix(path, publicPaths[i])

\* the texts of package auth: the errors.New and fmt.Errorf messages, the
\* scheme ExtractTokenFromHeader accepts, and the substrings
\* GetValidationResult looks for
AuthTxt ==
    [ missingHeader |->
          << "m", "i", "s", "s", "i", "n", "g", " ", "a", "u", "t", "h", "o", "r", "i", "z", "a", "t", "i", "o", "n", " ", "h", "e", "a", "d", "e", "r" >>,
      badFormat |->
          << "i", "n", "v", "a", "l", "i", "d", " ", "a", "u", "t", "h", "o", "r", "i", "z", "a", "t", "i", "o", "n", " ", "h", "e", "a", "d", "e", "r", " ", "f", "o", "r", "m", "a", "t" >>,
      badScheme |->
          << "u", "n", "s", "u", "p", "p", "o", "r", "t", "e", "d", " ", "a", "u", "t", "h", "o", "r", "i", "z", "a", "t", "i", "o", "n", " ", "s", "c", "h", "e", "m", "e" >>,
      missingToken |->
          << "m", "i", "s", "s", "i", "n", "g", " ", "t", "o", "k", "e", "n", " ", "i", "n", " ", "a", "u", "t", "h", "o", "r", "i", "z", "a", "t", "i", "o", "n", " ", "h", "e", "a", "d", "e", "r" >>,
      bearer |->
          << "b", "e", "a", "r", "e", "r" >>,
      parsePrefix |->
          << "f", "a", "i", "l", "e", "d", " ", "t", "o", " ", "p", "a", "r", "s", "e", " ", "t", "o", "k", "e", "n", ":", " " >>,
      claimsPrefix |->
          << "i", "n", "v", "a", "l", "i", "d", " ", "c", "l", "a", "i", "m", "s", ":", " " >>,
      expired |->
          << "t", "o", "k", "e", "n", " ", "i", "s", " ", "e", "x", "p", "i", "r", "e", "d" >>,
      notYet |->
          << "t", "o", "k", "e", "n", " ", "i", "s", " ", "n", "o", "t", " ", "v", "a", "l", "i", "d", " ", "y", "e", "t" >>,
      noUser |->
          << "m", "i", "s", "s", "i", "n", "g", " ", "u", "s", "e", "r", "_", "i", "d", " ", "i", "n", " ", "t", "o", "k", "e", "n" >>,
      noEmail |->
          << "m", "i", "s", "s", "i", "n", "g", " ", "e", "m", "a", "i", "l", " ", "i", "n", " ", "t", "o", "k", "e", "n" >>,
      invalid |->
          << "i", "n", "v", "a", "l", "i", "d", " ", "t", "o", "k", "e", "n" >>,
      needleExpired |->
          << "e", "x", "p", "i", "r", "e", "d" >>,
      needleMissing |->
          << "m", "i", "s", "s", "i", "n", "g" >> ]

\* the error texts jwt.ParseWithClaims returns (golang-jwt v5): a token that
\* does not parse, a wrong signature, an expired token, a token that is not
\* valid yet, and the key function's refusal of a non-HMAC method
JwtTxt ==
    [ malformed |->
          << "t", "o", "k", "e", "n", " ", "i", "s", " ", "m", "a", "l", "f", "o", "r", "m", "e", "d", ":", " ", "t", "o", "k", "e", "n", " ", "c", "o", "n", "t", "a", "i", "n", "s", " ", "a", "n", " ", "i", "n", "v", "a", "l", "i", "d", " ", "n", "u", "m", "b", "e", "r", " ", "o", "f", " ", "s", "e", "g", "m", "e", "n", "t", "s" >>,
      signature |->
          << "t", "o", "k", "e", "n", " ", "s", "i", "g", "n", "a", "t", "u", "r", "e", " ", "i", "s", " ", "i", "n", "v", "a", "l", "i", "d", ":", " ", "s", "i", "g", "n", "a", "t", "u", "r", "e", " ", "i", "s", " ", "i", "n", "v", "a", "l", "i", "d" >>,
      expired |->
          << "t", "o", "k", "e", "n", " ", "h", "a", "s", " ", "i", "n", "v", "a", "l", "i", "d", " ", "c", "l", "a", "i", "m", "s", ":", " ", "t", "o", "k", "e", "n", " ", "i", "s", " ", "e", "x", "p", "i", "r", "e", "d" >>,
      notYet |->
          << "t", "o", "k", "e", "n", " ", "h", "a", "s", " ", "i", "n", "v", "a", "l", "i", "d", " ", "c", "l", "a", "i", "m", "s", ":", " ", "t", "o", "k", "e", "n", " ", "i", "s", " ", "n", "o", "t", " ", "v", "a", "l", "i", "d", " ", "y", "e", "t" >>,
      method |->
          << "t", "o", "k", "e", "n", " ", "i", "s", " ", "u", "n", "v", "e", "r", "i", "f", "i", "a", "b", "l", "e", ":", " ", "e", "r", "r", "o", "r", " ", "w", "h", "i", "l", "e", " ", "e", "x", "e", "c", "u", "t", "i", "n", "g", " ", "k", "e", "y", "f", "u", "n", "c", ":", " ", "u", "n", "e", "x", "p", "e", "c", "t", "e", "d", " ", "s", "i", "g", "n", "i", "n", "g", " ", "m", "e", "t", "h", "o", "d", ":", " ", "n", "o", "n", "e" >> ]

\* ExtractTokenFromHeader with a scheme comparison that minds the case
ExtractTokenCaseSensitive(authHeader) ==
    LET i == IndexChar(authHeader, " ")
        parts == IF i = 0 THEN << authHeader >>
                 ELSE << SubSeq(authHeader, 1, i - 1),
                         SubSeq(authHeader, i + 1, Len(authHeader)) >>
    IN  IF authHeader = << >>
        THEN [token |-> << >>, err |-> AuthTxt.missingHeader]
        ELSE IF Len(parts) # 2
        THEN [token |-> << >>, err |-> AuthTxt.badFormat]
        ELSE IF parts[1] # << "B", "e", "a", "r", "e", "r" >>
        THEN [token |-> << >>, err |-> AuthTxt.badScheme]
        ELSE IF parts[2] = << >>
        THEN [token |-> << >>, err |-> AuthTxt.missingToken]
        ELSE [token |-> parts[2], err |-> << >>]

\* auth.ExtractTokenFromHeader; parts is strings.SplitN(authHeader, " ", 2),
\* err is the text of the error, empty for nil
ExtractTokenFromHeader(authHeader) ==
    LET i == IndexChar(authHeader, " ")
        parts == IF i = 0 THEN << authHeader >>
                 ELSE << SubSeq(authHeader, 1, i - 1),
                         SubSeq(authHeader, i + 1, Len(authHeader)) >>
    IN  IF authHeader = << >>
        THEN [token |-> << >>, err |-> AuthTxt.missingHeader]
        ELSE IF Len(parts) # 2
        THEN [token |-> << >>, err |-> AuthTxt.badFormat]
        ELSE IF ToLower(parts[1]) # AuthTxt.bearer
        THEN [token |-> << >>, err |-> AuthTxt.badScheme]
        ELSE IF parts[2] = << >>
        THEN [token |-> << >>, err |-> AuthTxt.missingToken]
        ELSE [token |-> parts[2], err |-> << >>]

\* no user context
NoUser == [present |-> FALSE, userID |-> << >>, email |-> << >>, tokenType |-> ""]

\* JWTValidator.validateClaims; exp and nbf are nil, or lie in the past or in
\* the future of the time.Now() validateClaims reads
validateClaims(claims) ==
    IF claims.exp = "past" THEN AuthTxt.expired
    ELSE IF claims.nbf = "future" THEN AuthTxt.notYet
    ELSE IF claims.userID = << >> THEN AuthTxt.noUser
    ELSE IF claims.email = << >> THEN AuthTxt.noEmail
    ELSE << >>

\* JWTValidator.ValidateToken on what jwt.ParseWithClaims returned.  The
\* UserContext literal reads claims.IssuedAt.Time and claims.ExpiresAt.Time:
\* with a nil IssuedAt or ExpiresAt that is a nil pointer dereference
ValidateToken(parsed) ==
    IF parsed.err # << >>
    THEN [kind |-> "err", err |-> AuthTxt.parsePrefix \o parsed.err, user |-> NoUser]
    ELSE IF parsed.valid
    THEN LET e == validateClaims(parsed.claims)
         IN  IF e # << >>
             THEN [kind |-> "err", err |-> AuthTxt.claimsPrefix \o e, user |-> NoUser]
             ELSE IF parsed.claims.iat = "nil" \/ parsed.claims.exp = "nil"
             THEN [kind |-> "panic", err |-> << >>, user |-> NoUser]
             ELSE [kind |-> "ok", err |-> << >>,
                   user |-> [present |-> TRUE, userID |-> parsed.claims.userID,
                             email |-> parsed.claims.email, tokenType |-> "JWT"]]
    ELSE [kind |-> "err", err |-> AuthTxt.invalid, user |-> NoUser]

\* auth.GetValidationResult for a non-nil error
GetValidationResult(errText) ==
    IF Contains(ToLower(errText), AuthTxt.needleExpired) THEN "expired"
    ELSE IF Contains(ToLower(errText), AuthTxt.needleMissing) THEN "missing"
    ELSE "invalid"

\* AuthMiddleware.handleAuthError: the headers, the status and the JSON body
handleAuthError(wr, result) ==
    LET message == CASE result = "expired" -> "Token has expired"
                     [] result = "invalid" -> "Invalid token"
                     [] result = "missing" -> "Authorization header required"
                     [] OTHER -> "Authentication required"
        w1 == SetHeader(SetHeader(SetHeader(SetHeader(wr,
                  Hdr.contentType, Val.json), Hdr.allowOrigin, Val.star),
                  Hdr.allowMethods, Val.corsMethods), Hdr.allowHeaders, Val.corsHeaders)
    IN  Write(WriteHeader(w1, 401), ErrorBody(message, "AUTHENTICATION_FAILED"))

\* the Authorization header values explored; the empty one is a request
\* without the header
AuthHeaderValues ==
    { << >>,
      << "B", "e", "a", "r", "e", "r", " ", "t", "o", "k" >>,
      << "b", "e", "a", "r", "e", "r", " ", "t", "o", "k" >>,
      << "B", "E", "A", "R", "E", "R", " ", " ", "t", "o", "k" >>,
      << "B", "a", "s", "i", "c", " ", "t", "o", "k" >>,
      << "B", "e", "a", "r", "e", "r" >>,
      << "B", "e", "a", "r", "e", "r", " " >>,
      << "B", "e", "a", "r", "e", "r", " ", "a", " ", "b" >>,
      << " ", "B", "e", "a", "r", "e", "r", " ", "t", "o", "k" >>,
      << "B", "e", "a", "r", "e", "r", "t", "o", "k", " ", "x" >> }

\* the request paths explored at the gate: entries of the allowlist, paths
\* that continue one, a path that is a proper prefix of one, and protected
\* paths
AuthPaths ==
    { Path.authLogin,
      << "/", "h", "e", "a", "l", "t", "h", "c", "h", "e", "c", "k" >>,
      << "/", "m", "e", "t", "r", "i", "c", "s", "/", "x" >>,
      << "/", "r", "e", "a", "d", "y", "z" >>,
      << "/", "h", "e", "a", "l" >>,
      << "/", "a", "u", "t", "h", "/", "l", "o", "g", "o", "u", "t" >>,
      << "/" >>,
      Path.me,
      Path.urls }

\* the requests explored at the gate
AuthRequests ==
    { [path |-> p,
       headers |-> IF h = << >> THEN NoHeaders ELSE (Hdr.authorization :> << h >>)] :
          p \in AuthPaths, h \in AuthHeaderValues }

\* the registered claims of a token the library accepted: it has refused a
\* token whose nbf lies in the future; exp may have passed between the
\* library's clock read and validateClaims'
ClaimsValues ==
    [exp : {"nil", "past", "future"}, nbf : {"nil", "past"}, iat : {"nil", "set"},
     userID : {<< >>, << "u", "1" >>},
     email : {<< >>, << "a", "@", "b", ".", "c" >>}]

\* what jwt.ParseWithClaims returns: an error, or a valid token with claims
ParseOutcomes ==
    { [err |-> e, valid |-> FALSE,
       claims |-> [exp |-> "nil", nbf |-> "nil", iat |-> "nil", userID |-> << >>,
                   email |-> << >>]] :
          e \in {JwtTxt.malformed, JwtTxt.signature, JwtTxt.expired, JwtTxt.notYet,
                 JwtTxt.method} }
      \cup { [err |-> << >>, valid |-> TRUE, claims |-> c] : c \in ClaimsValues }

\* the gate with a request that is at pc0; nothing was extracted, validated
\* or written yet
InitAuth(requests, pc0) ==
    /\ aReq \in requests
    /\ aPc = pc0
    /\ aExtract = [token |-> << >>, err |-> << >>]
    /\ aVerdict = [kind |-> "none", err |-> << >>, user |-> NoUser]
    /\ aCalls = 0
    /\ aNext = 0
    /\ aUser = NoUser
    /\ aW = NewWriter
    /\ aMetrics = << >>

\* no request at the gate
IdleAuth == InitAuth({[path |-> Path.me, headers |-> NoHeaders]}, "idle")

\* the handler up to the call of ValidateToken: a public path goes to next,
\* an Authorization header without a bearer token is answered 401
AuthStart ==
    /\ aPc = "start"
    /\ IF isPublicPath(aReq.path)
       THEN /\ aNext' = aNext + 1
            /\ aPc' = "done"
            /\ UNCHANGED << aExtract, aCalls, aW, aMetrics >>
       ELSE LET x == ExtractTokenFromHeader(HeaderGet(aReq.headers, Hdr.authorization))
            IN  /\ aExtract' = x
                /\ IF x.err # << >>
                   THEN /\ aW' = handleAuthError(aW, "missing")
                        /\ aMetrics' = Append(aMetrics, "missing")
                        /\ aPc' = "done"
                        /\ UNCHANGED aCalls
                   ELSE /\ aCalls' = aCalls + 1
                        /\ aPc' = "validate"
                        /\ UNCHANGED << aW, aMetrics >>
                /\ UNCHANGED aNext
    /\ UNCHANGED << aReq, aVerdict, aUser >>
    /\ UNCHANGED << proxyVars, rlVars, plVars >>

\* ValidateToken returns: an error is answered 401, a user context is
\* attached and next is invoked; a panic unwinds to middleware.Recoverer,
\* which answers 500
ValidatorReturns ==
    /\ aPc = "validate"
    /\ \E p \in ParseOutcomes :
           LET v == ValidateToken(p)
           IN  /\ aVerdict' = v
               /\ CASE v.kind = "err" ->
                         /\ aW' = handleAuthError(aW, GetValidationResult(v.err))
                         /\ aMetrics' = Append(aMetrics, GetValidationResult(v.err))
                         /\ UNCHANGED << aUser, aNext >>
                    [] v.kind = "ok" ->
                         /\ aUser' = v.user
                         /\ aMetrics' = Append(aMetrics, "success")
                         /\ aNext' = aNext + 1
                         /\ UNCHANGED aW
                    [] v.kind = "panic" ->
                         /\ aW' = WriteHeader(aW, 500)
                         /\ UNCHANGED << aUser, aNext, aMetrics >>
    /\ aPc' = "done"
    /\ UNCHANGED << aReq, aExtract, aCalls >>
    /\ UNCHANGED << proxyVars, rlVars, plVars >>

\* OptionalAuthMiddleware's handler up to the call of ValidateToken: without
\* an Authorization header, or with one that holds no bearer token, it goes
\* straight to next
OptionalStart ==
    /\ aPc = "start"
    /\ LET authHeader == HeaderGet(aReq.headers, Hdr.authorization)
           x == ExtractTokenFromHeader(authHeader)
       IN  IF authHeader # << >> /\ x.err = << >>
           THEN /\ aExtract' = x
                /\ aCalls' = aCalls + 1
                /\ aPc' = "validate"
                /\ UNCHANGED aNext
           ELSE /\ aExtract' = IF authHeader # << >> THEN x ELSE aExtract
                /\ aNext' = aNext + 1
                /\ aPc' = "done"
                /\ UNCHANGED aCalls
    /\ UNCHANGED << aReq, aVerdict, aUser, aW, aMetrics >>
    /\ UNCHANGED << proxyVars, rlVars, plVars >>

\* ValidateToken returns to OptionalAuthMiddleware: a user context is
\* attached, an error is recorded, and next is invoked in both cases; a panic
\* unwinds past the call of next to middleware.Recoverer, which answers 500
OptionalValidatorReturns ==
    /\ aPc = "validate"
    /\ \E p \in ParseOutcomes :
           LET v == ValidateToken(p)
           IN  /\ aVerdict' = v
               /\ CASE v.kind = "err" ->
                         /\ aMetrics' = Append(aMetrics, GetValidationResult(v.err))
                         /\ aNext' = aNext + 1
                         /\ UNCHANGED << aUser, aW >>
                    [] v.kind = "ok" ->
                         /\ aUser' = v.user
                         /\ aMetrics' = Append(aMetrics, "success")
                         /\ aNext' = aNext + 1
                         /\ UNCHANGED aW
                    [] v.kind = "panic" ->
                         /\ aW' = WriteHeader(aW, 500)
                         /\ UNCHANGED << aUser, aNext, aMetrics >>
    /\ aPc' = "done"
    /\ UNCHANGED << aReq, aExtract, aCalls >>
    /\ UNCHANGED << proxyVars, rlVars, plVars >>

(***************************************************************************)
(* The rate limiter: RateLimitMiddleware, its registry of rate.Limiter     *)
(* token buckets and the cleanup goroutine.                                *)
(*                                                                         *)
(* Time is counted in ticks, TicksPerSecond to the second, and tokens in   *)
(* units of 1 / TicksPerSecond token: a limiter of rate r gains r units    *)
(* per tick, and Allow takes TicksPerSecond units.                         *)
(***************************************************************************)
\* the header names handleRateLimitExceeded sets, as http.Header.Set
\* canonicalises them
RLHdr ==
    [ limit |->
          << "X", "-", "R", "a", "t", "e", "l", "i", "m", "i", "t", "-", "L", "i", "m", "i", "t" >>,
      remaining |->
          << "X", "-", "R", "a", "t", "e", "l", "i", "m", "i", "t", "-", "R", "e", "m", "a", "i", "n", "i", "n", "g" >>,
      reset |->
          << "X", "-", "R", "a", "t", "e", "l", "i", "m", "i", "t", "-", "R", "e", "s", "e", "t" >>,
      retryAfter |->
          << "R", "e", "t", "r", "y", "-", "A", "f", "t", "e", "r" >> ]

\* resetTime of handleRateLimitExceeded, also the retry_after of the body
resetTime == 60

\* the period of cleanupTicker: 5 minutes
cleanupInterval == 5 * 60 * TicksPerSecond

\* cleanupThreshold of cleanup: 10 minutes
cleanupThreshold == 10 * 60 * TicksPerSecond

\* RateLimitMiddleware.getClientIP
rlGetClientIP(r) ==
    IF HeaderGet(r.headers, Hdr.xForwardedFor) # << >>
    THEN HeaderGet(r.headers, Hdr.xForwardedFor)
    ELSE IF HeaderGet(r.headers, Hdr.xRealIP) # << >>
    THEN HeaderGet(r.headers, Hdr.xRealIP)
    ELSE r.remoteAddr

\* rate.NewLimiter at time t: a full bucket
NewLimiter(r, b, t) ==
    [limit |-> r, burst |-> b, tokens |-> b * TicksPerSecond, last |-> t]

\* a refill that is not capped at burst
advanceUncapped(lim, t) ==
    lim.tokens + (t - lim.last) * lim.limit

\* Limiter.advance: the tokens at time t, capped at burst
advance(lim, t) ==
    LET tokens == lim.tokens + (t - lim.last) * lim.limit
    IN  IF tokens > lim.burst * TicksPerSecond THEN lim.burst * TicksPerSecond
        ELSE tokens

\* a limiter that admits whatever its bucket holds
reserveAlways(lim, t) ==
    TRUE

\* Limiter.reserveN(t, 1, 0).ok: a whole token is there at time t
reserveOK(lim, t) ==
    advance(lim, t) - TicksPerSecond >= 0

\* int(limiter.Tokens()) at time t: the conversion truncates toward zero
remainingTokens(lim, t) ==
    IF advance(lim, t) >= 0 THEN advance(lim, t) \div TicksPerSecond
    ELSE 0 - ((0 - advance(lim, t)) \div TicksPerSecond)

\* a registry lookup that never finds an entry
existsNever(reg, clientIP) ==
    FALSE

\* limiter, exists := rl.limiters[clientIP]
exists(reg, clientIP) ==
    clientIP \in DOMAIN reg

\* m[k] = v on a Go map
MapSet(m, k, v) ==
    [x \in (DOMAIN m) \cup {k} |-> IF x = k THEN v ELSE m[x]]

\* an access time that is kept only for clients that have one already
setLastAccessKnown(la, clientIP, t) ==
    IF clientIP \in DOMAIN la THEN MapSet(la, clientIP, t) ELSE la

\* a lookup that stamps the access time of every client
setLastAccessAll(la, clientIP, t) ==
    [c \in (DOMAIN la) \cup {clientIP} |-> t]

\* getLimiter: rl.lastAccess[clientIP] = time.Now()
setLastAccess(la, clientIP, t) ==
    MapSet(la, clientIP, t)

\* a sweep that also deletes the entries that are exactly cleanupThreshold old
StaleAtThreshold(la, t) ==
    {c \in DOMAIN la : t - la[c] >= cleanupThreshold}

\* the entries cleanup deletes at time t
Stale(la, t) ==
    {c \in DOMAIN la : t - la[c] > cleanupThreshold}

\* the body handleRateLimitExceeded writes
RateLimitBody ==
    [kind |-> "json", error |-> "Rate limit exceeded", code |-> "RATE_LIMIT_EXCEEDED",
     retry_after |-> resetTime, complete |-> TRUE]

\* handleRateLimitExceeded's headers, status and body
RejectionResponse(wr, rps, remaining) ==
    LET w1 == SetHeader(SetHeader(SetHeader(SetHeader(wr,
                  RLHdr.limit, Itoa(rps)), RLHdr.remaining, Itoa(remaining)),
                  RLHdr.reset, Itoa(resetTime)), RLHdr.retryAfter, Itoa(resetTime))
        w2 == SetHeader(SetHeader(SetHeader(SetHeader(w1,
                  Hdr.allowOrigin, Val.star), Hdr.allowMethods, Val.corsMethods),
                  Hdr.allowHeaders, Val.corsHeaders), Hdr.contentType, Val.json)
    IN  Write(WriteHeader(w2, 429), RateLimitBody)

\* the configurations explored: RATE_LIMIT_RPS and RATE_LIMIT_BURST
RPSValues == {1, 2}
BurstValues == {1, 2}

\* the requests explored: two paths of one client named by X-Forwarded-For,
\* and a client known by its socket address only
RLRequests ==
    { [path |-> Path.urls, headers |-> (Hdr.xForwardedFor :> << Sample.xff >>),
       remoteAddr |-> Sample.remote],
      [path |-> Path.me, headers |-> (Hdr.xForwardedFor :> << Sample.xff >>),
       remoteAddr |-> Sample.remote],
      [path |-> Path.urls, headers |-> NoHeaders, remoteAddr |-> Sample.remote] }

\* the client identifiers of the requests explored
Clients == {rlGetClientIP(r) : r \in RLRequests}

\* the handler slots
Slots == 1..MaxRequests

\* a handler that has not started
NoRq ==
    [pc |-> "new", path |-> << >>, client |-> << >>, lim |-> 0, hdrLim |-> 0,
     full |-> FALSE, allowed |-> FALSE, next |-> 0, w |-> NewWriter]

\* a handler is between getLimiter and its return
InFlight == \E i \in Slots : rq[i].pc \notin {"new", "done"}

\* the middleware after NewRateLimitMiddleware, for one configuration
InitRL(rpsSet, burstSet) ==
    /\ requestsPerSecond \in rpsSet
    /\ burstSize \in burstSet
    /\ now = 0
    /\ limiters = << >>
    /\ lastAccess = << >>
    /\ lims = << >>
    /\ rq = [i \in Slots |-> NoRq]
    /\ hits = << >>
    /\ active = 0
    /\ tickPending = FALSE
    /\ tickerStopped = FALSE
    /\ stopCleanup = "open"
    /\ sweeper = "running"
    /\ admitted = [c \in Clients |-> 0]

\* the handler's first step: getClientIP and getLimiter, the latter under
\* rl.mutex: look the limiter up, create and register it when there is
\* none, and set lastAccess.  main closes the listener (server.Shutdown)
\* before its deferred Stop runs, so no request arrives after Stop
Lookup(i) ==
    /\ rq[i].pc = "new"
    /\ stopCleanup = "open"
    /\ IF i = 1 THEN TRUE ELSE rq[i - 1].pc # "new"
    /\ \E r \in RLRequests :
           LET c == rlGetClientIP(r)
               id == IF exists(limiters, c) THEN limiters[c] ELSE Len(lims) + 1
           IN  /\ IF exists(limiters, c)
                  THEN UNCHANGED << limiters, lims >>
                  ELSE /\ lims' = Append(lims, NewLimiter(requestsPerSecond, burstSize, now))
                       /\ limiters' = MapSet(limiters, c, id)
               /\ lastAccess' = setLastAccess(lastAccess, c, now)
               /\ rq' = [rq EXCEPT ![i] = [@ EXCEPT !.pc = "allow", !.path = r.path,
                                                     !.client = c, !.lim = id]]
    /\ UNCHANGED << requestsPerSecond, burstSize, now, hits, active, tickPending,
                    tickerStopped, stopCleanup, sweeper, admitted >>
    /\ UNCHANGED << proxyVars, authVars, plVars >>

\* limiter.Allow(), under the limiter's own mutex, and the branch on it:
\* next.ServeHTTP, or handleRateLimitExceeded
Allow(i) ==
    /\ rq[i].pc = "allow"
    /\ LET lim == lims[rq[i].lim]
           c == rq[i].client
       IN  IF reserveOK(lim, now)
           THEN /\ lims' = [lims EXCEPT ![rq[i].lim] =
                               [lim EXCEPT !.tokens = advance(lim, now) - TicksPerSecond,
                                           !.last = now]]
                /\ admitted' = [admitted EXCEPT ![c] = @ + 1]
                /\ rq' = [rq EXCEPT ![i] = [@ EXCEPT !.pc = "done", !.allowed = TRUE,
                                                      !.full = admitted[c] >= burstSize,
                                                      !.next = @ + 1]]
           ELSE /\ rq' = [rq EXCEPT ![i] = [@ EXCEPT !.pc = "exceeded",
                                                      !.full = admitted[c] >= burstSize]]
                /\ UNCHANGED << lims, admitted >>
    /\ UNCHANGED << requestsPerSecond, burstSize, now, limiters, lastAccess, hits,
                    active, tickPending, tickerStopped, stopCleanup, sweeper >>
    /\ UNCHANGED << proxyVars, authVars, plVars >>

\* handleRateLimitExceeded up to limiter.Tokens(): RecordRateLimitHit(clientIP,
\* r.URL.Path), and getLimiterForIP under the read lock, which returns the
\* registered limiter, or a fresh one that is not registered (limiter 0)
handleRateLimitExceeded(i) ==
    /\ rq[i].pc = "exceeded"
    /\ LET key == << rq[i].client, rq[i].path >>
       IN  hits' = MapSet(hits, key, IF key \in DOMAIN hits THEN hits[key] + 1 ELSE 1)
    /\ rq' = [rq EXCEPT ![i] = [@ EXCEPT !.pc = "tokens",
                  !.hdrLim = IF exists(limiters, rq[i].client)
                             THEN limiters[rq[i].client] ELSE 0]]
    /\ UNCHANGED << requestsPerSecond, burstSize, now, limiters, lastAccess, lims,
                    active, tickPending, tickerStopped, stopCleanup, sweeper, admitted >>
    /\ UNCHANGED << proxyVars, authVars, plVars >>

\* limiter.Tokens() and the response of handleRateLimitExceeded
WriteRejection(i) ==
    /\ rq[i].pc = "tokens"
    /\ LET lim == IF rq[i].hdrLim = 0
                  THEN NewLimiter(requestsPerSecond, burstSize, now)
                  ELSE lims[rq[i].hdrLim]
       IN  rq' = [rq EXCEPT ![i] = [@ EXCEPT !.pc = "done",
                     !.w = RejectionResponse(@, requestsPerSecond,
                                             remainingTokens(lim, now))]]
    /\ UNCHANGED << requestsPerSecond, burstSize, now, limiters, lastAccess, lims,
                    hits, active, tickPending, tickerStopped, stopCleanup, sweeper,
                    admitted >>
    /\ UNCHANGED << proxyVars, authVars, plVars >>

\* the clock advances by one tick; single ticks are followed up to
\* MaxFineTicks, after that the clock is followed period by period
ClockTick ==
    /\ now < MaxFineTicks
    /\ now' = now + 1
    /\ admitted' = [c \in Clients |-> 0]
    /\ UNCHANGED << requestsPerSecond, burstSize, limiters, lastAccess, lims, rq,
                    hits, active, tickPending, tickerStopped, stopCleanup, sweeper >>
    /\ UNCHANGED << proxyVars, authVars, plVars >>

\* the clock advances to the end of the ticker period and the ticker sends
\* a tick, which is dropped when one is still pending.  A handler returns
\* within the 60 s of middleware.Timeout, so none is in flight over minutes
TickerFires ==
    /\ ~InFlight
    /\ (now \div cleanupInterval) < MaxIntervals
    /\ now' = ((now \div cleanupInterval) + 1) * cleanupInterval
    /\ tickPending' = (tickPending \/ ~tickerStopped)
    /\ admitted' = [c \in Clients |-> 0]
    /\ UNCHANGED << requestsPerSecond, burstSize, limiters, lastAccess, lims, rq,
                    hits, active, tickerStopped, stopCleanup, sweeper >>
    /\ UNCHANGED << proxyVars, authVars, plVars >>

\* the cleanup goroutine's select takes the tick: cleanup(), under rl.mutex
cleanup ==
    /\ sweeper = "running"
    /\ tickPending
    /\ tickPending' = FALSE
    /\ LET stale == Stale(lastAccess, now)
       IN  /\ limiters' = [c \in (DOMAIN limiters) \ stale |-> limiters[c]]
           /\ lastAccess' = [c \in (DOMAIN lastAccess) \ stale |-> lastAccess[c]]
           /\ active' = Cardinality((DOMAIN limiters) \ stale)
    /\ UNCHANGED << requestsPerSecond, burstSize, now, lims, rq, hits, tickerStopped,
                    stopCleanup, sweeper, admitted >>
    /\ UNCHANGED << proxyVars, authVars, plVars >>

\* RateLimitMiddleware.Stop, deferred once by main: close(rl.stopCleanup)
Stop ==
    /\ stopCleanup = "open"
    /\ stopCleanup' = "closed"
    /\ UNCHANGED << requestsPerSecond, burstSize, now, limiters, lastAccess, lims, rq,
                    hits, active, tickPending, tickerStopped, sweeper, admitted >>
    /\ UNCHANGED << proxyVars, authVars, plVars >>

\* the cleanup goroutine's select takes the closed stopCleanup:
\* cleanupTicker.Stop() and return
SweeperExits ==
    /\ sweeper = "running"
    /\ stopCleanup = "closed"
    /\ sweeper' = "exited"
    /\ tickerStopped' = TRUE
    /\ UNCHANGED << requestsPerSecond, burstSize, now, limiters, lastAccess, lims, rq,
                    hits, active, tickPending, stopCleanup, admitted >>
    /\ UNCHANGED << proxyVars, authVars, plVars >>

(***************************************************************************)
(* The middleware chain of the router, as main builds it, and one request  *)
(* at a time on its way down the chain and back.                           *)
(***************************************************************************)
\* the header names and values of CORSMiddleware that no other handler uses
Cors ==
    [ allowCredentials |->
          << "A", "c", "c", "e", "s", "s", "-", "C", "o", "n", "t", "r", "o", "l", "-", "A", "l", "l", "o", "w", "-", "C", "r", "e", "d", "e", "n", "t", "i", "a", "l", "s" >>,
      maxAge |->
          << "A", "c", "c", "e", "s", "s", "-", "C", "o", "n", "t", "r", "o", "l", "-", "M", "a", "x", "-", "A", "g", "e" >>,
      methods |->
          << "G", "E", "T", ",", " ", "P", "O", "S", "T", ",", " ", "P", "U", "T", ",", " ", "D", "E", "L", "E", "T", "E", ",", " ", "O", "P", "T", "I", "O", "N", "S", ",", " ", "P", "A", "T", "C", "H" >>,
      headers |->
          << "A", "c", "c", "e", "p", "t", ",", " ", "C", "o", "n", "t", "e", "n", "t", "-", "T", "y", "p", "e", ",", " ", "C", "o", "n", "t", "e", "n", "t", "-", "L", "e", "n", "g", "t", "h", ",", " ", "A", "c", "c", "e", "p", "t", "-", "E", "n", "c", "o", "d", "i", "n", "g", ",", " ", "A", "u", "t", "h", "o", "r", "i", "z", "a", "t", "i", "o", "n", ",", " ", "X", "-", "C", "S", "R", "F", "-", "T", "o", "k", "e", "n", ",", " ", "X", "-", "R", "e", "q", "u", "e", "s", "t", "e", "d", "-", "W", "i", "t", "h" >>,
      true |->
          << "t", "r", "u", "e" >>,
      age |->
          << "3", "6", "0", "0" >> ]

\* a chain that authenticates before it limits the rate
MiddlewaresAuthFirst(cfg) ==
    << "RequestID", "RealIP", "Recoverer", "Timeout", "Logging", "CORS" >>
        \o (IF cfg.tracing THEN << "Tracing" >> ELSE << >>)
        \o << "Auth" >>
        \o (IF cfg.rateLimit THEN << "RateLimit" >> ELSE << >>)

\* a chain that recovers panics outside the connection-identity stages
MiddlewaresRecovererFirst(cfg) ==
    << "Recoverer", "RequestID", "RealIP", "Timeout", "Logging", "CORS" >>
        \o (IF cfg.tracing THEN << "Tracing" >> ELSE << >>)
        \o (IF cfg.rateLimit THEN << "RateLimit" >> ELSE << >>)
        \o << "Auth" >>

\* main's r.Use calls in their order: chi runs the middlewares in the order
\* of registration, the first one outermost
Middlewares(cfg) ==
    << "RequestID", "RealIP", "Recoverer", "Timeout", "Logging", "CORS" >>
        \o (IF cfg.tracing THEN << "Tracing" >> ELSE << >>)
        \o (IF cfg.rateLimit THEN << "RateLimit" >> ELSE << >>)
        \o << "Auth" >>

\* the handler a middleware calls as next: the middleware registered after
\* it, or the handler of the matching route
NextHandler(cfg, stage) ==
    LET ms == Middlewares(cfg)
        i == CHOOSE k \in 1..Len(ms) : ms[k] = stage
    IN  IF i < Len(ms) THEN ms[i + 1] ELSE "Handler"

\* the routes of main: three GET routes, and "/*" for every method
MatchRoute(r) ==
    IF r.method = "GET" /\ r.path = publicPaths[4] THEN "HealthCheck"
    ELSE IF r.method = "GET" /\ r.path = publicPaths[6] THEN "ReadinessCheck"
    ELSE IF r.method = "GET" /\ r.path = publicPaths[7] THEN "metrics"
    ELSE "ProxyHandler"

\* CORSMiddleware's five headers
CORSHeaders(wr) ==
    SetHeader(SetHeader(SetHeader(SetHeader(SetHeader(wr,
        Hdr.allowOrigin, Val.star), Hdr.allowMethods, Cors.methods),
        Hdr.allowHeaders, Cors.headers), Cors.allowCredentials, Cors.true),
        Cors.maxAge, Cors.age)

\* AuthMiddleware.Middleware on a request whose token, if it carries one,
\* parses to r.parse: whether ValidateToken is called, and how the handler
\* goes on
AuthDecision(r) ==
    IF isPublicPath(r.path)
    THEN [validated |-> FALSE, kind |-> "next", result |-> ""]
    ELSE LET x == ExtractTokenFromHeader(HeaderGet(r.headers, Hdr.authorization))
             v == ValidateToken(r.parse)
         IN  IF x.err # << >>
             THEN [validated |-> FALSE, kind |-> "reject", result |-> "missing"]
             ELSE CASE v.kind = "ok" ->
                         [validated |-> TRUE, kind |-> "next", result |-> "success"]
                    [] v.kind = "err" ->
                         [validated |-> TRUE, kind |-> "reject",
                          result |-> GetValidationResult(v.err)]
                    [] v.kind = "panic" ->
                         [validated |-> TRUE, kind |-> "panic", result |-> ""]

\* a chain whose CORS stage hands preflight requests on
DelegatesPreflight(stage, r, lim) ==
    CASE stage = "RateLimit" -> reserveOK(lim, 0)
      [] stage = "Auth" -> AuthDecision(r).kind = "next"
      [] OTHER -> TRUE

\* whether the middleware calls next.ServeHTTP
Delegates(stage, r, lim) ==
    CASE stage = "CORS" -> r.method # "OPTIONS"
      [] stage = "RateLimit" -> reserveOK(lim, 0)
      [] stage = "Auth" -> AuthDecision(r).kind = "next"
      [] OTHER -> TRUE

\* the requests explored.  The paths: a protected and a public path with a
\* route, the health route, a public and a protected path without a route,
\* and a path under the metrics entry of the allowlist.
\* What the token of a request parses to: a wrong signature, claims that
\* pass, expired claims, and claims without iat; a request without
\* Authorization has no token
PipelineRequests ==
    LET paths ==
            { Path.urls, Path.authLogin, publicPaths[4],
              << "/", "h", "e", "a", "l", "t", "h", "c", "h", "e", "c", "k" >>, Path.authx,
              << "/", "m", "e", "t", "r", "i", "c", "s", "/", "x" >> }
        parses ==
            { [err |-> JwtTxt.signature, valid |-> FALSE,
               claims |-> [exp |-> "nil", nbf |-> "nil", iat |-> "nil", userID |-> << >>,
                           email |-> << >>]] }
              \cup { [err |-> << >>, valid |-> TRUE,
                      claims |-> [exp |-> e, nbf |-> "nil", iat |-> i, userID |-> << "u", "1" >>,
                                  email |-> << "a", "@", "b", ".", "c" >>]] :
                         e \in {"past", "future"}, i \in {"nil", "set"} }
    IN  { [method |-> m, path |-> p, headers |-> NoHeaders,
           parse |-> CHOOSE x \in parses : x.err # << >>] :
              m \in {"GET", "OPTIONS"}, p \in paths }
          \cup { [method |-> m, path |-> p,
                  headers |-> (Hdr.authorization :> << << "B", "e", "a", "r", "e", "r", " ", "t", "o", "k" >> >>),
                  parse |-> x] :
                     m \in {"GET", "OPTIONS"}, p \in paths, x \in parses }

\* no ValidateToken, ProxyHandler or upstream call yet
NoCalls == [validator |-> 0, proxy |-> 0, upstream |-> 0]

\* the chain of a configuration with a client's full bucket, and the request
\* (if any) at pc0
InitPipeline(cfgs, bursts, pc0) ==
    /\ plCfg \in cfgs
    /\ plBurst \in bursts
    /\ plReq = [method |-> "GET", path |-> Path.me, headers |-> NoHeaders,
                parse |-> (CHOOSE r \in PipelineRequests : r.headers = NoHeaders).parse]
    /\ plStack = << >>
    /\ plPc = pc0
    /\ plTrace = << >>
    /\ plW = NewWriter
    /\ plLim = NewLimiter(1, plBurst, 0)
    /\ plCalls = NoCalls
    /\ plDrawn = 0
    /\ plServed = 0
    /\ plRec = [rw |-> [statusCode |-> 200, written |-> FALSE],
                trw |-> [statusCode |-> 200, written |-> FALSE], calls |-> << >>]

\* no request in the chain
IdlePipeline ==
    InitPipeline({[tracing |-> FALSE, rateLimit |-> FALSE]}, {1}, "off")

\* the server accepts a request and calls the outermost handler
PipelineArrive ==
    /\ plPc = "idle"
    /\ plServed < MaxFlood
    /\ \E r \in PipelineRequests : plReq' = r
    /\ plStack' = << Middlewares(plCfg)[1] >>
    /\ plTrace' = << [ev |-> "enter", stage |-> Middlewares(plCfg)[1]] >>
    /\ plW' = NewWriter
    /\ plCalls' = NoCalls
    /\ plDrawn' = 0
    /\ plPc' = "down"
    /\ UNCHANGED << plCfg, plBurst, plLim, plServed, plRec >>
    /\ UNCHANGED << proxyVars, authVars, rlVars >>

\* the innermost middleware does its work and calls next.ServeHTTP: CORS sets
\* its headers, the rate limiter takes a token, the authentication gate
\* validates the token of a protected path
StageDelegates ==
    /\ plPc = "down"
    /\ plStack[Len(plStack)] # "Handler"
    /\ LET stage == plStack[Len(plStack)]
           nxt == NextHandler(plCfg, stage)
       IN  /\ Delegates(stage, plReq, plLim)
           /\ plW' = IF stage = "CORS" THEN CORSHeaders(plW) ELSE plW
           /\ plLim' = IF stage = "RateLimit"
                       THEN [plLim EXCEPT !.tokens = advance(plLim, 0) - TicksPerSecond,
                                          !.last = 0]
                       ELSE plLim
           /\ plDrawn' = IF stage = "RateLimit" THEN plDrawn + 1 ELSE plDrawn
           /\ plCalls' = IF stage = "Auth" /\ AuthDecision(plReq).validated
                         THEN [plCalls EXCEPT !.validator = @ + 1]
                         ELSE plCalls
           /\ plStack' = Append(plStack, nxt)
           /\ plTrace' = Append(plTrace, [ev |-> "enter", stage |-> nxt])
    /\ UNCHANGED << plCfg, plBurst, plReq, plPc, plServed, plRec >>
    /\ UNCHANGED << proxyVars, authVars, rlVars >>

\* the innermost middleware answers the request itself and does not call
\* next: CORS on OPTIONS, the rate limiter on an empty bucket, the
\* authentication gate on a credential it refuses
StageShortCircuits ==
    /\ plPc = "down"
    /\ plStack[Len(plStack)] # "Handler"
    /\ LET stage == plStack[Len(plStack)]
           d == AuthDecision(plReq)
       IN  /\ ~Delegates(stage, plReq, plLim)
           /\ stage = "Auth" => d.kind = "reject"
           /\ plW' = CASE stage = "CORS" -> WriteHeader(CORSHeaders(plW), 200)
                       [] stage = "RateLimit" ->
                            RejectionResponse(plW, plLim.limit, remainingTokens(plLim, 0))
                       [] stage = "Auth" -> handleAuthError(plW, d.result)
           /\ plCalls' = IF stage = "Auth" /\ d.validated
                         THEN [plCalls EXCEPT !.validator = @ + 1]
                         ELSE plCalls
    /\ plPc' = "up"
    /\ UNCHANGED << plCfg, plBurst, plReq, plStack, plTrace, plLim, plDrawn, plServed,
                    plRec >>
    /\ UNCHANGED << proxyVars, authVars, rlVars >>

\* ValidateToken panics in the authentication gate
StagePanics ==
    /\ plPc = "down"
    /\ plStack[Len(plStack)] = "Auth"
    /\ AuthDecision(plReq).kind = "panic"
    /\ plCalls' = [plCalls EXCEPT !.validator = @ + 1]
    /\ plPc' = "panic"
    /\ UNCHANGED << plCfg, plBurst, plReq, plStack, plTrace, plW, plLim, plDrawn,
                    plServed, plRec >>
    /\ UNCHANGED << proxyVars, authVars, rlVars >>

\* the panic leaves the innermost handler; middleware.Recoverer recovers it,
\* answers 500 and returns
PanicUnwinds ==
    /\ plPc = "panic"
    /\ IF plStack[Len(plStack)] = "Recoverer"
       THEN /\ plW' = WriteHeader(plW, 500)
            /\ plPc' = "up"
            /\ UNCHANGED << plStack, plTrace >>
       ELSE /\ plTrace' = Append(plTrace, [ev |-> "unwind",
                                           stage |-> plStack[Len(plStack)]])
            /\ plStack' = SubSeq(plStack, 1, Len(plStack) - 1)
            /\ UNCHANGED << plW, plPc >>
    /\ UNCHANGED << plCfg, plBurst, plReq, plLim, plCalls, plDrawn, plServed, plRec >>
    /\ UNCHANGED << proxyVars, authVars, rlVars >>

\* the handler of the matching route answers: the health and metrics
\* handlers, or ProxyHandler.  ProxyRequest relays the upstream's response,
\* or returns one of its errors (no route; attempts exhausted; parent context
\* done; body unreadable; copy of the response failed, after the status and
\* a part of the body were sent), which handleProxyError answers
TerminalHandler ==
    /\ plPc = "down"
    /\ plStack[Len(plStack)] = "Handler"
    /\ LET t == determineTarget(plReq.path)
           errs == IF ~t.ok THEN { RouteErr }
                   ELSE { NoProxyErr, ExhaustedErr(StatusErr(503)), ContextErr("canceled"),
                          ContextErr("deadline"), CreateErr("eof"), CopyErr("pipe") }
                          \cup { ExhaustedErr(NetErr(c)) : c \in NetCauses }
       IN  IF MatchRoute(plReq) = "ProxyHandler"
           THEN \E e \in errs :
                  LET errStr == ErrorString(e, plReq.method, plReq.path, t.url)
                      relayed == Write(WriteHeader(plW, 200), UpstreamBody(e.kind # "copy"))
                  IN  /\ plCalls' = [plCalls EXCEPT !.proxy = @ + 1,
                                                     !.upstream =
                                                         IF e.kind \in {"noroute", "create"}
                                                         THEN @ ELSE @ + 1]
                      /\ plW' = CASE e.kind = "none" -> relayed
                                  [] e.kind = "copy" -> handleProxyError(relayed, errStr)
                                  [] OTHER -> handleProxyError(plW, errStr)
           ELSE /\ plW' = WriteHeader(SetHeader(plW, Hdr.contentType, Val.json), 200)
                /\ UNCHANGED plCalls
    /\ plPc' = "up"
    /\ UNCHANGED << plCfg, plBurst, plReq, plStack, plTrace, plLim, plDrawn, plServed,
                    plRec >>
    /\ UNCHANGED << proxyVars, authVars, rlVars >>

\* the innermost handler returns to its caller; when the outermost one has
\* returned the request is served
StageReturns ==
    /\ plPc = "up"
    /\ plTrace' = Append(plTrace, [ev |-> "exit", stage |-> plStack[Len(plStack)]])
    /\ plStack' = SubSeq(plStack, 1, Len(plStack) - 1)
    /\ plPc' = IF Len(plStack) = 1 THEN "idle" ELSE "up"
    /\ plServed' = IF Len(plStack) = 1 THEN plServed + 1 ELSE plServed
    /\ UNCHANGED << plCfg, plBurst, plReq, plW, plLim, plCalls, plDrawn, plRec >>
    /\ UNCHANGED << proxyVars, authVars, rlVars >>

\* no request in the proxy
IdleProxy ==
    /\ req = Request(Path.me, [hasBody |-> FALSE, body |-> << >>, broken |-> FALSE])
    /\ retries = 0
    /\ pc = "idle"
    /\ target = NoTarget
    /\ attempt = 0
    /\ lastErr = NilErr
    /\ ctxErr = "none"
    /\ doCtx = "none"
    /\ attemptCtx = "none"
    /\ origBody = BodyReader(req)
    /\ streamReads = 0
    /\ upReq = NoUpReq
    /\ outcomes = << >>
    /\ trace = << >>
    /\ upResp = NoUpResp
    /\ perr = NoProxyErr
    /\ w = NewWriter
    /\ gauge = [s \in Services |-> 0]
    /\ errMetrics = << >>

\* no request in the rate limiter
IdleRateLimit == InitRL({1}, {1})

(***************************************************************************)
(* The specifications: one request through the reverse proxy; one request  *)
(* at the authentication gate; the rate limiter with its requests, its     *)
(* clock and its cleanup goroutine.                                        *)
(***************************************************************************)
Init == InitProxy /\ IdleAuth /\ IdleRateLimit /\ IdlePipeline

Next ==
    \/ ProxyStart
    \/ LoopHead
    \/ AttemptReturns
    \/ BackoffElapsed
    \/ BackoffCancelled
    \/ Relay
    \/ HandleError
    \/ CancelParent

Spec == Init /\ [][Next]_vars

\* the proxied request with the progress the code makes by itself, for a
\* request that is routed, one that is not, and one whose body cannot be
\* read: every step of ProxyRequest and ProxyHandler is taken once it can be,
\* client.Do returns (with a response, an error or the error of its
\* per-attempt timeout), the timer of a backoff fires, and the copy of the
\* response ends.  Nothing is assumed of the cancellation of the parent
\* context
InitLive ==
    /\ Init
    /\ req \in { Request(p, [hasBody |-> TRUE, body |-> << 104, 105 >>, broken |-> b]) :
                    p \in {Path.urls, Path.connection}, b \in BOOLEAN }

SpecLive ==
    /\ InitLive
    /\ [][Next]_vars
    /\ WF_vars(ProxyStart) /\ WF_vars(LoopHead) /\ WF_vars(AttemptReturns)
    /\ WF_vars(BackoffElapsed) /\ WF_vars(BackoffCancelled)
    /\ WF_vars(Relay) /\ WF_vars(HandleError)

InitAuthGate ==
    IdleProxy /\ InitAuth(AuthRequests, "start") /\ IdleRateLimit /\ IdlePipeline

NextAuth ==
    \/ AuthStart
    \/ ValidatorReturns

SpecAuth == InitAuthGate /\ [][NextAuth]_vars

InitRateLimit ==
    IdleProxy /\ IdleAuth /\ InitRL(RPSValues, BurstValues) /\ IdlePipeline

NextRateLimit ==
    \/ \E i \in Slots : Lookup(i)
    \/ \E i \in Slots : Allow(i)
    \/ \E i \in Slots : handleRateLimitExceeded(i)
    \/ \E i \in Slots : WriteRejection(i)
    \/ ClockTick
    \/ TickerFires
    \/ cleanup
    \/ Stop
    \/ SweeperExits

SpecRateLimit == InitRateLimit /\ [][NextRateLimit]_vars

NextOptionalAuth ==
    \/ OptionalStart
    \/ OptionalValidatorReturns

SpecOptionalAuth == InitAuthGate /\ [][NextOptionalAuth]_vars

InitChain == IdleProxy /\ IdleAuth /\ IdleRateLimit
                 /\ InitPipeline([tracing : BOOLEAN, rateLimit : BOOLEAN], BurstValues, "idle")

NextPipeline ==
    \/ PipelineArrive
    \/ StageDelegates
    \/ StageShortCircuits
    \/ StagePanics
    \/ PanicUnwinds
    \/ TerminalHandler
    \/ StageReturns

SpecPipeline == InitChain /\ [][NextPipeline]_vars

(***************************************************************************)
(* The status-capturing writers of the logging and tracing middlewares.    *)
(* A handler behind them makes up to MaxWrites calls of WriteHeader and    *)
(* Write and returns.  The middleware chain above leaves the wrappers      *)
(* aside; they are followed here call by call.                             *)
(***************************************************************************)
\* a responseWriter that takes the status of every WriteHeader call
rwWriteHeaderEvery(rec, wr, code) ==
    [rec |-> [rec EXCEPT !.rw = [statusCode |-> code, written |-> TRUE]],
     w |-> WriteHeader(wr, code)]

\* responseWriter.WriteHeader (logging.go); wr is the server's writer
rwWriteHeader(rec, wr, code) ==
    IF ~rec.rw.written
    THEN [rec |-> [rec EXCEPT !.rw = [statusCode |-> code, written |-> TRUE]],
          w |-> WriteHeader(wr, code)]
    ELSE [rec |-> rec, w |-> wr]

\* responseWriter.Write
rwWrite(rec, wr, data) ==
    LET s == IF ~rec.rw.written THEN rwWriteHeader(rec, wr, 200)
             ELSE [rec |-> rec, w |-> wr]
    IN  [rec |-> s.rec, w |-> Write(s.w, data)]

\* tracingResponseWriter.WriteHeader (tracing.go); its ResponseWriter is the
\* responseWriter of the logging middleware
trwWriteHeader(rec, wr, code) ==
    IF ~rec.trw.written
    THEN rwWriteHeader([rec EXCEPT !.trw = [statusCode |-> code, written |-> TRUE]],
                       wr, code)
    ELSE [rec |-> rec, w |-> wr]

\* tracingResponseWriter.Write
trwWrite(rec, wr, data) ==
    LET s == IF ~rec.trw.written THEN trwWriteHeader(rec, wr, 200)
             ELSE [rec |-> rec, w |-> wr]
    IN  rwWrite(s.rec, s.w, data)

\* the handler calls WriteHeader on the writer it was given: the tracing
\* wrapper when tracing is enabled, else the logging wrapper
HandlerWriteHeader ==
    /\ plPc = "serve"
    /\ Len(plRec.calls) < MaxWrites
    /\ \E code \in {200, 401, 429, 500, 503} :
           LET s == IF plCfg.tracing THEN trwWriteHeader(plRec, plW, code)
                    ELSE rwWriteHeader(plRec, plW, code)
           IN  /\ plRec' = [s.rec EXCEPT !.calls =
                               Append(@, [op |-> "WriteHeader", code |-> code])]
               /\ plW' = s.w
    /\ UNCHANGED << plCfg, plBurst, plReq, plStack, plPc, plTrace, plLim, plCalls,
                    plDrawn, plServed >>
    /\ UNCHANGED << proxyVars, authVars, rlVars >>

\* the handler calls Write on the writer it was given
HandlerWrite ==
    /\ plPc = "serve"
    /\ Len(plRec.calls) < MaxWrites
    /\ LET s == IF plCfg.tracing THEN trwWrite(plRec, plW, RateLimitBody)
                ELSE rwWrite(plRec, plW, RateLimitBody)
       IN  /\ plRec' = [s.rec EXCEPT !.calls = Append(@, [op |-> "Write", code |-> 0])]
           /\ plW' = s.w
    /\ UNCHANGED << plCfg, plBurst, plReq, plStack, plPc, plTrace, plLim, plCalls,
                    plDrawn, plServed >>
    /\ UNCHANGED << proxyVars, authVars, rlVars >>

\* next.ServeHTTP returns: the middlewares read wrappedWriter.statusCode for
\* the log record, the metric and the span, and the server sends the header
\* with 200 if the handler has not sent one
HandlerReturns ==
    /\ plPc = "serve"
    /\ plW' = WriteHeader(plW, 200)
    /\ plPc' = "returned"
    /\ UNCHANGED << plCfg, plBurst, plReq, plStack, plTrace, plLim, plCalls, plDrawn,
                    plServed, plRec >>
    /\ UNCHANGED << proxyVars, authVars, rlVars >>

NextWriter ==
    \/ HandlerWriteHeader
    \/ HandlerWrite
    \/ HandlerReturns

InitWriter ==
    /\ IdleProxy /\ IdleAuth /\ IdleRateLimit
    /\ InitPipeline({[tracing |-> t, rateLimit |-> FALSE] : t \in BOOLEAN}, {1}, "serve")

SpecWriter == InitWriter /\ [][NextWriter]_vars

(***************************************************************************)
(* Properties of the reverse proxy.                                        *)
(***************************************************************************)
\* the number of upstream attempts issued so far
Attempts == Cardinality({i \in 1..Len(trace) : trace[i].ev = "attempt"})

\* the number of backoff sleeps begun so far
Sleeps == Cardinality({i \in 1..Len(trace) : trace[i].ev = "sleep"})

\* proxyWithRetries has returned
Returned == pc \in {"relay", "failed", "done"}

\* the outcome of the latest attempt
LastOutcome == outcomes[Len(outcomes)]

\* the chunks of the client's response body that are JSON error bodies
ErrorBodies == {i \in 1..Len(w.body) : w.body[i].kind = "json"}

\* C1: a request that resolves to a route, for a service with Retries >= 0,
\* gets at most 1 + Retries upstream attempts, and exactly 1 + Retries when
\* the call has returned, attempts were made, every one of them ended in a
\* retryable outcome (an error, or a status >= 500 other than 501) and the
\* parent context was never cancelled.
C1_AttemptBound ==
    (target.ok /\ retries >= 0) =>
        /\ Attempts <= 1 + retries
        /\ ( /\ pc \in {"failed", "done"}
             /\ ctxErr = "none"
             /\ Len(outcomes) >= 1
             /\ \A i \in 1..Len(outcomes) :
                    \/ outcomes[i].kind = "err"
                    \/ (outcomes[i].status >= 500 /\ outcomes[i].status # 501) )
           => Attempts = 1 + retries

\* C1 witness: three attempts against Retries = 2, all retryable, no cancel
C1_Witness ==
    /\ pc = "done" /\ target.ok /\ retries = 2 /\ ctxErr = "none"
    /\ Attempts = 3 /\ Len(outcomes) = 3
    /\ \A i \in 1..3 : Retryable(outcomes[i])

\* C2: the loop goes on after an attempt only if the attempt ended in a
\* network-level error or a status >= 500 other than 501, and it returns the
\* response of an attempt exactly when that response has any other status
\* (every status < 500, and 501); the returned response's status is the one
\* the client receives.  Against an upstream answering 501 there is exactly
\* one attempt, no backoff sleep, and the client receives 501.
C2_RetryIffRetryable ==
    /\ \A i \in 1..Len(outcomes) :
          i < Len(outcomes) =>
              \/ outcomes[i].kind = "err"
              \/ (outcomes[i].status >= 500 /\ outcomes[i].status # 501)
    /\ (Len(outcomes) >= 1 /\ Len(outcomes) = Attempts /\ pc # "do") =>
          /\ upResp.present <=>
                /\ LastOutcome.kind = "resp"
                /\ (LastOutcome.status < 500 \/ LastOutcome.status = 501)
          /\ upResp.present =>
                /\ Returned
                /\ upResp.status = LastOutcome.status
                /\ pc = "done" => w.status = LastOutcome.status
    /\ (Len(outcomes) >= 1 /\ outcomes[1] = RespOutcome(501)) =>
          /\ Len(outcomes) = 1 /\ Attempts = 1 /\ Sleeps = 0
          /\ pc = "done" => w.status = 501

\* C2 witness: one attempt answered 501 although retries were configured
C2_Witness ==
    /\ pc = "done" /\ retries >= 1
    /\ outcomes = << RespOutcome(501) >>
    /\ w.status = 501 /\ Sleeps = 0

C4_CancelDuringBackoff ==
    /\ [][ (pc = "backoff" /\ ctxErr # "none") =>
              \/ pc' = "backoff"
              \/ /\ pc' = "failed"
                 /\ perr' = ContextErr(ctxErr)
                 /\ trace' = trace /\ outcomes' = outcomes ]_vars
    /\ [] ( ( /\ pc \in {"failed", "done"}
              /\ Len(trace) >= 1
              /\ trace[Len(trace)].ev = "sleep" )
            => (ctxErr # "none" /\ perr = ContextErr(ctxErr)) )

\* C4 witness: a call that returned the cancellation out of its first sleep
C4_Witness ==
    /\ pc = "failed" /\ perr = ContextErr("canceled")
    /\ trace = << AttemptEvent(1), SleepEvent(100) >>
    /\ retries >= 1

\* C5: for a request whose body stream delivers its bytes, every upstream
\* attempt is sent exactly those bytes, the inbound stream is read at most
\* once over the whole request, and once proxyWithRetries has returned the
\* original request's body reads the same bytes again.
C5_BodyReplay ==
    /\ streamReads <= 1
    /\ (req.hasBody /\ ~req.broken) =>
          /\ pc = "do" => (upReq.hasBody /\ upReq.body = req.body)
          /\ Returned => (origBody.open /\ Remaining(origBody) = req.body)

\* C5 witness: a two-byte body after three attempts
C5_Witness ==
    /\ pc = "done" /\ Attempts = 3 /\ streamReads = 1
    /\ req.body = << 104, 105 >> /\ upReq.body = << 104, 105 >>
    /\ Remaining(origBody) = << 104, 105 >>

\* C6: for a path that starts with none of the route prefixes there is no
\* upstream attempt, no retry, the in-flight gauge is never touched, and the
\* client receives 404 with code ROUTE_NOT_FOUND.
C6_RouteNotFound ==
    ( /\ ~HasPrefix(req.path, RoutePrefix.auth)
      /\ ~HasPrefix(req.path, RoutePrefix.me)
      /\ ~HasPrefix(req.path, RoutePrefix.urls)
      /\ ~HasPrefix(req.path, RoutePrefix.notifications) )
    => /\ trace = << >> /\ outcomes = << >> /\ ~upReq.built
       /\ \A s \in Services : gauge[s] = 0
       /\ pc \notin {"loop", "do", "backoff", "relay"}
       /\ pc = "done" =>
             /\ w.status = 404
             /\ w.body = << ErrorBody("Endpoint not found", "ROUTE_NOT_FOUND") >>

\* C6 witness: /connection answered 404
C6_Witness ==
    /\ pc = "done" /\ req.path = Path.connection
    /\ w.status = 404 /\ trace = << >>

\* the class of a failure of ProxyRequest, from what failed
FailureClass ==
    CASE perr.kind = "noroute" -> "noroute"
      [] perr.kind = "exhausted" /\ perr.last.kind = "net"
            /\ perr.last.cause \in {"deadline", "iotimeout"} -> "timeout"
      [] perr.kind = "ctx" /\ perr.cause = "deadline" -> "timeout"
      [] perr.kind = "exhausted" /\ perr.last.kind = "net"
            /\ perr.last.cause = "refused" -> "connection"
      [] OTHER -> "other"

\* the status and code C7 gives each class
ClassResponse(class) ==
    CASE class = "noroute" -> [status |-> 404, code |-> "ROUTE_NOT_FOUND"]
      [] class = "timeout" -> [status |-> 504, code |-> "TIMEOUT_ERROR"]
      [] class = "connection" -> [status |-> 502, code |-> "SERVICE_UNAVAILABLE"]
      [] class = "other" -> [status |-> 500, code |-> "PROXY_ERROR"]

\* C7: when ProxyRequest fails before anything was relayed, the client
\* receives the status and code of the failure's class: no route -> 404 /
\* ROUTE_NOT_FOUND, timeout -> 504 / TIMEOUT_ERROR, connection failure ->
\* 502 / SERVICE_UNAVAILABLE, anything else -> 500 / PROXY_ERROR.
C7_ErrorClassification ==
    (pc = "done" /\ perr.kind \notin {"none", "copy"}) =>
        /\ w.status = ClassResponse(FailureClass).status
        /\ Len(w.body) = 1
        /\ w.body[1].kind = "json"
        /\ w.body[1].code = ClassResponse(FailureClass).code

(***************************************************************************)
(* Properties of the authentication gate.                                  *)
(***************************************************************************)
\* the request path has an entry of the allowlist as prefix
PublicRequest == \E i \in 1..Len(publicPaths) : HasPrefix(aReq.path, publicPaths[i])

\* C8: at the authentication gate the downstream handler is invoked, once,
\* iff the request path has an entry of the public-path allowlist as prefix
\* or the validator accepted the extracted bearer token; for a public path
\* the validator is never called; and when the extraction fails or the
\* validator returns an error on a non-public path, the response is 401
\* with code AUTHENTICATION_FAILED and the downstream handler is not
\* invoked.
C8_AuthGate ==
    LET accepted == aVerdict.kind = "ok"
        failed == aExtract.err # << >> \/ aVerdict.kind = "err"
    IN  /\ aNext <= 1
        /\ aNext = 1 => (PublicRequest \/ accepted)
        /\ PublicRequest => (aCalls = 0 /\ aVerdict.kind = "none")
        /\ aPc = "done" =>
              /\ aNext = 1 <=> (PublicRequest \/ accepted)
              /\ (~PublicRequest /\ failed) =>
                    /\ aNext = 0
                    /\ aW.wroteHeader
                    /\ aW.status = 401
                    /\ Len(aW.body) = 1
                    /\ aW.body[1].kind = "json"
                    /\ aW.body[1].code = "AUTHENTICATION_FAILED"

\* C8 witness: a request on a protected path whose bearer token the
\* validator accepted has reached the downstream handler
C8_Witness ==
    /\ aPc = "done"
    /\ ~PublicRequest
    /\ aCalls = 1
    /\ aVerdict.kind = "ok"
    /\ aUser.present
    /\ aNext = 1

(***************************************************************************)
(* Properties of the rate limiter.                                         *)
(***************************************************************************)
\* the text is an unsigned decimal number
IsDigits(s) ==
    /\ Len(s) >= 1
    /\ \A k \in 1..Len(s) : s[k] \in {"0", "1", "2", "3", "4", "5", "6", "7", "8", "9"}

\* the handlers that have recorded their rate-limit hit under the key
HitRecorded(key) ==
    {i \in Slots : /\ rq[i].pc \in {"tokens", "done"}
                   /\ ~rq[i].allowed
                   /\ << rq[i].client, rq[i].path >> = key}

LiveLimiters(c) ==
    (IF c \in DOMAIN limiters THEN {limiters[c]} ELSE {})
        \cup {rq[i].lim : i \in {j \in Slots : rq[j].pc = "allow" /\ rq[j].client = c}}

CleanupStep == tickPending /\ ~tickPending'

\* C11: a sweep removes exactly the buckets whose last access lies more than
\* 10 minutes before the sweep and keeps all others with their limiter and
\* access time; nothing but a sweep removes a bucket; every lookup for a
\* client sets that bucket's access time to the time of the lookup; and the
\* registry and the access times always cover the same clients; so a bucket
\* accessed within the last 10 minutes is never evicted.
C11_SweepEvictsIdleOnly ==
    /\ [](DOMAIN limiters = DOMAIN lastAccess)
    /\ [][ /\ CleanupStep =>
                /\ DOMAIN limiters' =
                       {c \in DOMAIN limiters :
                            now - lastAccess[c] <= 10 * 60 * TicksPerSecond}
                /\ \A c \in DOMAIN limiters' :
                       limiters'[c] = limiters[c] /\ lastAccess'[c] = lastAccess[c]
           /\ ~CleanupStep => (DOMAIN limiters) \subseteq (DOMAIN limiters')
           /\ \A i \in Slots :
                  (rq[i].pc = "new" /\ rq'[i].pc # "new") =>
                      /\ rq'[i].client \in DOMAIN lastAccess'
                      /\ lastAccess'[rq'[i].client] = now ]_vars

\* C11 witness: a sweep has run that evicted the bucket of one client and
\* kept the bucket of another, last accessed exactly 10 minutes before
C11_Witness ==
    /\ ~tickPending
    /\ active = 1
    /\ \E i \in Slots : rq[i].pc = "done" /\ rq[i].client \notin DOMAIN limiters
    /\ \E c \in DOMAIN limiters : now - lastAccess[c] = 10 * 60 * TicksPerSecond

\* C12: once Stop has been called (stopCleanup is closed), the cleanup
\* goroutine runs no cleanup: no step of cleanup is taken while stopCleanup
\* is closed, whatever the order of the ticker's tick and the stop signal.
C12_NoSweepAfterStop ==
    [][stopCleanup = "closed" => ~CleanupStep]_vars

(***************************************************************************)
(* Properties of the middleware chain.                                     *)
(***************************************************************************)
\* the stages of the events of one kind in the request's trace, in order
StagesOf(kind) ==
    LET IsKind(e) == e.ev = kind
        evs == SelectSeq(plTrace, IsKind)
    IN  [i \in 1..Len(evs) |-> evs[i].stage]

\* the required order of the stages, outermost first, without the stages
\* the configuration disables; connection-identity normalization is the
\* pair RequestID, RealIP
RequiredOrder ==
    LET On(s) == /\ s = "Tracing" => plCfg.tracing
                 /\ s = "RateLimit" => plCfg.rateLimit
    IN  SelectSeq(<< "RequestID", "RealIP", "Recoverer", "Timeout", "Logging", "CORS",
                     "Tracing", "RateLimit", "Auth", "Handler" >>, On)

\* the request in the chain has reached the handler of its route
ReachedHandler == \E i \in 1..Len(plTrace) : plTrace[i] = [ev |-> "enter", stage |-> "Handler"]

\* C13: the stages a request enters are an initial part of the required
\* order; a request that reaches the terminal handler has entered every
\* enabled stage before it, in the required order, and when it is served
\* the stages were left in the reverse order, after all of them were entered
C13_StageOrder ==
    LET entered == StagesOf("enter")
        left == StagesOf("exit")
        n == Len(RequiredOrder)
    IN  /\ Len(entered) <= n
        /\ entered = SubSeq(RequiredOrder, 1, Len(entered))
        /\ ReachedHandler => entered = RequiredOrder
        /\ (ReachedHandler /\ plPc = "idle") =>
               /\ left = [i \in 1..n |-> RequiredOrder[n + 1 - i]]
               /\ \A i \in 1..Len(plTrace) : plTrace[i].ev = "enter" <=> i <= n

C13_Witness ==
    /\ plPc = "idle"
    /\ plCfg.tracing /\ plCfg.rateLimit
    /\ ReachedHandler
    /\ plCalls.upstream = 1
    /\ Len(plTrace) = 20

\* the request in the chain entered the stage
Entered(stage) == \E i \in 1..Len(plTrace) : plTrace[i] = [ev |-> "enter", stage |-> stage]

\* C14: with rate limiting enabled, a request answered 429 by the rate
\* limiter has reached neither ValidateToken nor ProxyHandler nor the
\* authentication stage; a request that reaches the authentication stage,
\* whatever its credential, has taken a token from its client's bucket, so a
\* request answered 401 has taken one; and once the bucket holds no token
\* every request that is not a CORS preflight is answered 429
C14_RateLimitBeforeAuth ==
    plCfg.rateLimit =>
        /\ plW.status = 429 =>
               /\ plCalls.validator = 0 /\ plCalls.proxy = 0 /\ plCalls.upstream = 0
               /\ ~Entered("Auth") /\ ~Entered("Handler")
               /\ plDrawn = 0
        /\ Entered("Auth") => plDrawn = 1
        /\ plW.status = 401 => plDrawn = 1
        /\ plLim.tokens >= 0
        /\ (plPc = "idle" /\ plServed > 0 /\ plReq.method # "OPTIONS") =>
               \/ plDrawn = 1 /\ plW.status # 429
               \/ plDrawn = 0 /\ plW.status = 429 /\ plLim.tokens < TicksPerSecond

C14_Witness ==
    /\ plCfg.rateLimit
    /\ plBurst = 2
    /\ plPc = "idle" /\ plServed = 3
    /\ plReq.headers = NoHeaders /\ ~isPublicPath(plReq.path)
    /\ plW.status = 429

\* C15: when proxyWithRetries has returned because its attempts (at least
\* one) are exhausted, it returned no response, every one of the
\* 1 + Retries attempts was made, and the error it returned wraps the
\* failure of the last of them: the error of client.Do, or the error made
\* of the retryable status, of attempt 1 + Retries
C15_WrapsLastFailure ==
    (perr.kind = "exhausted" /\ retries >= 0) =>
        /\ ~upResp.present
        /\ Len(outcomes) = 1 + retries /\ Attempts = 1 + retries
        /\ Retryable(LastOutcome)
        /\ perr.last = IF LastOutcome.kind = "resp" THEN StatusErr(LastOutcome.status)
                       ELSE NetErr(LastOutcome.cause)
        /\ ErrorString(perr, req.method, req.path, target.url)
               = Msg.proxy \o Msg.exhausted \o LastErrText(perr.last, req.method, target.url)

C15_Witness ==
    /\ pc = "failed" /\ perr.kind = "exhausted" /\ retries = 2
    /\ outcomes[1].kind = "err" /\ outcomes[2] = RespOutcome(503)
    /\ outcomes[3] = RespOutcome(500)
    /\ perr.last = StatusErr(500)

\* the header name is, in lower case, one of the eight hop-by-hop names
IsHopName(n) ==
    ToLower(n) \in { << "c", "o", "n", "n", "e", "c", "t", "i", "o", "n" >>, << "k", "e", "e", "p", "-", "a", "l", "i", "v", "e" >>, << "p", "r", "o", "x", "y", "-", "a", "u", "t", "h", "e", "n", "t", "i", "c", "a", "t", "e" >>,
                     << "p", "r", "o", "x", "y", "-", "a", "u", "t", "h", "o", "r", "i", "z", "a", "t", "i", "o", "n" >>, << "t", "e" >>, << "t", "r", "a", "i", "l", "e", "r", "s" >>,
                     << "t", "r", "a", "n", "s", "f", "e", "r", "-", "e", "n", "c", "o", "d", "i", "n", "g" >>, << "u", "p", "g", "r", "a", "d", "e" >> }

\* C16: the upstream request carries no hop-by-hop header, and carries every
\* other header of the inbound request with all of its values, the four
\* forwarding headers the proxy sets itself excepted; the response sent to
\* the client after a relay carries no hop-by-hop header, and carries every
\* other header of the upstream's response with all of its values
C16_HopByHopFiltered ==
    /\ upReq.built =>
          /\ \A n \in DOMAIN upReq.headers : ~IsHopName(n)
          /\ \A n \in DOMAIN req.headers :
                (/\ ~IsHopName(n)
                 /\ n \notin {Hdr.xForwardedFor, Hdr.xForwardedProto, Hdr.xForwardedHost,
                              Hdr.xGateway})
                => (n \in DOMAIN upReq.headers /\ upReq.headers[n] = req.headers[n])
    /\ (upResp.present /\ pc \in {"done", "failed"}) =>
          /\ \A n \in DOMAIN w.sent : ~IsHopName(n)
          /\ \A n \in DOMAIN upResp.headers :
                ~IsHopName(n) => (n \in DOMAIN w.sent /\ w.sent[n] = upResp.headers[n])

C16_Witness ==
    /\ pc = "done" /\ upResp.present /\ upReq.built
    /\ << "c", "o", "n", "n", "e", "c", "t", "i", "o", "n" >> \in DOMAIN req.headers
    /\ Hop.proxyAuthenticate \in DOMAIN upResp.headers
    /\ Len(w.sent[<< "A", "c", "c", "e", "p", "t" >>]) = 2
    /\ Len(upReq.headers[<< "S", "e", "t", "-", "C", "o", "o", "k", "i", "e" >>]) = 2
    /\ << "T", "r", "a", "i", "l", "e", "r" >> \in DOMAIN w.sent

\* the service the prefix rules give a path, first match first; "" for none
RuleService(path) ==
    IF HasPrefix(path, << "/", "a", "u", "t", "h", "/" >>) \/ HasPrefix(path, << "/", "m", "e" >>) THEN "auth"
    ELSE IF HasPrefix(path, << "/", "u", "r", "l", "s" >>) THEN "url"
    ELSE IF HasPrefix(path, << "/", "n", "o", "t", "i", "f", "i", "c", "a", "t", "i", "o", "n", "s" >>) THEN "notification"
    ELSE ""

\* C17: once ProxyRequest has resolved the route, the target service is the
\* one the prefix rules give the request's path, taken in the order /auth/
\* or /me, /urls, /notifications, and the resolution has failed exactly when
\* no rule matches; nothing but the path enters the result
C17_RouteResolution ==
    pc # "start" =>
        /\ target.ok <=> RuleService(req.path) # ""
        /\ target.service = RuleService(req.path)
        /\ ~target.ok => (perr = RouteErr /\ ~upReq.built)

C17_Witness ==
    /\ pc = "done" /\ req.path = << "/", "m", "e", "t", "r", "i", "c", "s" >>
    /\ target.service = "auth" /\ upReq.built

(***************************************************************************)
(* Properties of the authentication gate, continued.                       *)
(***************************************************************************)
\* the header value is the scheme Bearer in any case, one space, and a
\* remainder that is not empty
BearerForm(h) ==
    /\ Len(h) >= 8
    /\ ToLower(SubSeq(h, 1, 6)) = << "b", "e", "a", "r", "e", "r" >>
    /\ h[7] = " "

\* C18: for a request to a protected path the gate has looked at, a token
\* was extracted iff the Authorization value has the bearer form, and the
\* token is the whole remainder after the one space; for every other value
\* (the absent header included) ValidateToken is not called, next is not
\* invoked, and the answer is 401 with the outcome missing recorded
C18_BearerExtraction ==
    LET h == HeaderGet(aReq.headers, Hdr.authorization)
    IN  (aPc \in {"validate", "done"} /\ ~isPublicPath(aReq.path)) =>
            /\ aExtract.err = << >> <=> BearerForm(h)
            /\ BearerForm(h) =>
                   /\ aExtract.token = SubSeq(h, 8, Len(h))
                   /\ aCalls = 1
            /\ ~BearerForm(h) =>
                   /\ aExtract.token = << >>
                   /\ aCalls = 0 /\ aNext = 0
                   /\ aW.status = 401
                   /\ aW.body = << ErrorBody("Authorization header required",
                                             "AUTHENTICATION_FAILED") >>
                   /\ aMetrics = << "missing" >>

C18_Witness ==
    /\ aPc = "validate"
    /\ HeaderGet(aReq.headers, Hdr.authorization) = << "B", "E", "A", "R", "E", "R", " ", " ", "t", "o", "k" >>
    /\ aExtract.token = << " ", "t", "o", "k" >>

\* C19: when the optional middleware is done with a request, next was
\* invoked exactly once, nothing was written to the response, and a user
\* context is attached iff ValidateToken accepted the token
C19_OptionalNeverBlocks ==
    aPc = "done" =>
        /\ aNext = 1
        /\ aW = NewWriter
        /\ aUser.present <=> aVerdict.kind = "ok"

(***************************************************************************)
(* Properties of the reverse proxy, continued.                             *)
(***************************************************************************)
\* ProxyRequest has passed RecordUpstreamRequestStart and has not returned
InProgress == pc \in {"loop", "do", "backoff", "relay"}

\* C20: the in-flight gauge of a service is 1 while the ProxyRequest call
\* for that service is past RecordUpstreamRequestStart and has not returned,
\* and 0 otherwise: before the increment, for the other services, and after
\* the return on every exit path (response relayed, attempts exhausted,
\* cancellation in the backoff, body unreadable, relay failed); it is never
\* negative
C20_InFlightGauge ==
    \A s \in Services :
        /\ gauge[s] >= 0
        /\ gauge[s] = IF InProgress /\ target.service = s THEN 1 ELSE 0

C20_Witness ==
    /\ pc = "failed" /\ perr.kind = "copy"
    /\ target.service = "notification"
    /\ Attempts = 2
    /\ \A s \in Services : gauge[s] = 0

\* C21: every ProxyRequest call eventually returns, with an error or after
\* the relay of a response, whatever the outcomes of its attempts are and
\* whether or not the parent context is cancelled
C21_ProxyRequestReturns == <>(pc \in {"failed", "done"})

C21_Witness ==
    /\ pc = "failed" /\ perr.kind = "exhausted"
    /\ retries = MaxRetries /\ Len(outcomes) = MaxRetries + 1
    /\ Sleeps = MaxRetries
    /\ ctxErr = "none"

(***************************************************************************)
(* Properties of the middleware chain, continued.                          *)
(***************************************************************************)
\* the error bodies of the gateway: the four of handleProxyError, the four
\* of handleAuthError and the one of handleRateLimitExceeded
FixedErrorBodies ==
    { [kind |-> "json", error |-> m[1], code |-> m[2], complete |-> TRUE] :
          m \in { << "Endpoint not found", "ROUTE_NOT_FOUND" >>,
                  << "Request timeout", "TIMEOUT_ERROR" >>,
                  << "Upstream service unavailable", "SERVICE_UNAVAILABLE" >>,
                  << "Internal server error", "PROXY_ERROR" >>,
                  << "Token has expired", "AUTHENTICATION_FAILED" >>,
                  << "Invalid token", "AUTHENTICATION_FAILED" >>,
                  << "Authorization header required", "AUTHENTICATION_FAILED" >>,
                  << "Authentication required", "AUTHENTICATION_FAILED" >> } }
      \cup { [kind |-> "json", error |-> "Rate limit exceeded",
              code |-> "RATE_LIMIT_EXCEEDED", retry_after |-> 60, complete |-> TRUE] }

\* C22: every JSON body a handler of the gateway has written is one of the
\* fixed error bodies, whose message and code are constants of the source:
\* none holds the error's text, the target URL or the token; and a served
\* request with one of the gateway's error statuses carries such a body as
\* the last part of its response
C22_FixedErrorBodies ==
    /\ \A i \in 1..Len(plW.body) :
           plW.body[i].kind = "json" => plW.body[i] \in FixedErrorBodies
    /\ (plPc = "idle" /\ plW.status \in {401, 404, 429, 502, 504}) =>
           /\ Len(plW.body) >= 1
           /\ plW.body[Len(plW.body)] \in FixedErrorBodies

C22_Witness ==
    /\ plPc = "idle" /\ plServed = 2
    /\ plW.status = 504
    /\ plW.body = << [kind |-> "json", error |-> "Request timeout",
                      code |-> "TIMEOUT_ERROR", complete |-> TRUE] >>

(***************************************************************************)
(* Properties of the reverse proxy, continued.                             *)
(***************************************************************************)
\* C23: the per-attempt context is live exactly while its attempt's
\* client.Do call runs: it is created for the attempt, and it is cancelled
\* in every state after the call returned, be it with a response that is
\* relayed, with a retryable outcome or with an error, so it is cancelled
\* during every backoff, at every later evaluation of the loop, during the
\* relay and after the return
C23_AttemptContextCancelled ==
    /\ attemptCtx = "live" <=> pc = "do"
    /\ (pc # "do" /\ Len(outcomes) > 0) => attemptCtx = "cancelled"
    /\ Len(outcomes) = 0 /\ pc # "do" => attemptCtx = "none"

C23_Witness ==
    /\ pc = "relay" /\ attemptCtx = "cancelled"
    /\ Len(outcomes) = 2 /\ outcomes[1].kind = "err"
    /\ upResp.status = 501

\* C24: once the parent context is cancelled or past its deadline, no
\* further upstream attempt is started
C24_NoAttemptAfterCancel == [][ctxErr # "none" => Attempts' = Attempts]_vars

\* C25: on a failing proxied request the error metric (and the error log
\* record emitted with it) is recorded while nothing of the client response,
\* neither status nor headers nor body, has been written
C25_ErrorRecordedBeforeResponse ==
    [][errMetrics' # errMetrics => (~w.wroteHeader /\ w.body = << >>)]_vars

\* the token count of every bucket, stored and as refilled up to time t, is
\* within 0..burst
TokensInRange(ls, t) ==
    \A k \in 1..Len(ls) :
        /\ 0 <= ls[k].tokens /\ ls[k].tokens <= ls[k].burst * TicksPerSecond
        /\ 0 <= advance(ls[k], t) /\ advance(ls[k], t) <= ls[k].burst * TicksPerSecond

\* C26: the token count of every bucket stays within 0..burst, also as
\* refilled up to the present; a bucket is created holding burst tokens; a
\* request is admitted iff the bucket holds at least one whole token at that
\* moment; an admission takes exactly one token and a rejection takes none.
C26_TokenBucket ==
    [][/\ TokensInRange(lims, now)
       /\ TokensInRange(lims', now')
       /\ Len(lims') > Len(lims) =>
             /\ Len(lims') = Len(lims) + 1
             /\ lims'[Len(lims')].tokens = burstSize * TicksPerSecond
             /\ advance(lims'[Len(lims')], now') = burstSize * TicksPerSecond
       /\ \A i \in Slots :
             (rq[i].pc = "allow" /\ rq'[i].pc # "allow") =>
                LET k == rq[i].lim
                    avail == advance(lims[k], now)
                IN  /\ rq'[i].allowed <=> avail >= TicksPerSecond
                    /\ rq'[i].allowed => advance(lims'[k], now') = avail - TicksPerSecond
                    /\ ~rq'[i].allowed => advance(lims'[k], now') = avail
                    /\ \A j \in 1..Len(lims) : j # k => lims'[j] = lims[j]]_vars

\* C26 witness: one request was admitted and one rejected, and a bucket that
\* was drawn from has since been refilled to burst and no further
C26_Witness ==
    /\ \E i \in Slots : rq[i].pc = "done" /\ rq[i].allowed
    /\ \E i \in Slots : rq[i].pc = "done" /\ ~rq[i].allowed /\ rq[i].w.status = 429
    /\ \E k \in 1..Len(lims) :
          /\ lims[k].tokens < lims[k].burst * TicksPerSecond
          /\ lims[k].tokens + (now - lims[k].last) * lims[k].limit
                > lims[k].burst * TicksPerSecond
          /\ advance(lims[k], now) = lims[k].burst * TicksPerSecond

\* C27: a request on a non-public path that the gate has finished with has
\* recorded exactly one auth-validation metric, labelled success, expired,
\* invalid or missing: success iff the downstream handler was invoked, and
\* otherwise the label of the 401 response that was written
C27_OneAuthMetric ==
    (aPc = "done" /\ ~isPublicPath(aReq.path)) =>
        /\ Len(aMetrics) = 1
        /\ aMetrics[1] \in {"success", "expired", "invalid", "missing"}
        /\ aMetrics[1] = "success" <=> aNext = 1
        /\ aMetrics[1] # "success" => aW = handleAuthError(NewWriter, aMetrics[1])

\* C28: a 401 of the authentication gate is sent with the Access-Control-*
\* header values the CORS stage sets on every request
C28_AuthFailureCorsHeaders ==
    (plW.wroteHeader /\ plW.status = 401) =>
        \A h \in {Hdr.allowOrigin, Hdr.allowMethods, Hdr.allowHeaders,
                  Cors.allowCredentials, Cors.maxAge} :
            HeaderGet(plW.sent, h) = HeaderGet(CORSHeaders(NewWriter).headers, h)

\* C29: for a request with method OPTIONS no stage behind CORS is entered,
\* no rate-limit token is drawn, the validator, the proxy and the upstream
\* are not called, and once the CORS stage has answered, the response is
\* 200 with the five CORS headers and no body
C29_PreflightShortCircuit ==
    (plReq.method = "OPTIONS" /\ plPc # "off") =>
        /\ \A s \in {"Tracing", "RateLimit", "Auth", "Handler"} : ~Entered(s)
        /\ plDrawn = 0
        /\ plCalls = NoCalls
        /\ plPc \in {"down", "up", "idle"}
        /\ plPc \in {"up", "idle"} =>
              /\ plW.wroteHeader
              /\ plW.status = 200
              /\ plW.sent = CORSHeaders(NewWriter).headers
              /\ HeaderGet(plW.sent, Hdr.allowOrigin) = Val.star
              /\ HeaderGet(plW.sent, Hdr.allowMethods) = Cors.methods
              /\ HeaderGet(plW.sent, Hdr.allowHeaders) = Cors.headers
              /\ HeaderGet(plW.sent, Cors.allowCredentials) = Cors.true
              /\ HeaderGet(plW.sent, Cors.maxAge) = Cors.age
              /\ plW.body = << >>

\* C29 witness: a preflight to a protected path, carrying a token, has been
\* answered through a chain with tracing and rate limiting switched on
C29_Witness ==
    /\ plReq.method = "OPTIONS"
    /\ plPc = "idle" /\ plServed >= 1
    /\ plCfg.tracing /\ plCfg.rateLimit
    /\ ~isPublicPath(plReq.path) /\ plReq.headers # NoHeaders
    /\ Entered("CORS")
    /\ plW.status = 200

\* the status the calls made so far commit the response to: the code of the
\* first WriteHeader, or 200 when a Write came first
FirstStatus ==
    IF plRec.calls[1].op = "WriteHeader" THEN plRec.calls[1].code ELSE 200

\* C30: as soon as a status has been sent through the wrappers, the
\* statusCode of the logging wrapper, and of the tracing wrapper when it is
\* in the chain, equals the status sent; that status is the code of the
\* first WriteHeader call, or 200 when a Write came first, whatever calls
\* follow; and when the handler returns without any call, 200 is both
\* recorded and sent.
C30_RecordedStatusIsSent ==
    /\ plRec.calls # << >> =>
          /\ plW.wroteHeader
          /\ plW.status = FirstStatus
          /\ plRec.rw.statusCode = plW.status
          /\ plCfg.tracing => plRec.trw.statusCode = plW.status
    /\ plPc = "returned" =>
          /\ plW.wroteHeader
          /\ plRec.rw.statusCode = plW.status
          /\ plCfg.tracing => plRec.trw.statusCode = plW.status
          /\ plRec.calls = << >> => plW.status = 200

\* C30 witness: behind both wrappers a handler has written a body, then
\* called WriteHeader with an error status, and returned
C30_Witness ==
    /\ plPc = "returned"
    /\ plCfg.tracing
    /\ Len(plRec.calls) >= 2
    /\ plRec.calls[1].op = "Write"
    /\ plRec.calls[2] = [op |-> "WriteHeader", code |-> 500]
    /\ plW.status = 200

\* C31: while the response of a non-retryable attempt waits to be relayed or
\* is being relayed by copyResponse, the per-attempt context it was obtained
\* under is not cancelled
C31_AttemptContextLiveDuringRelay ==
    pc = "relay" => attemptCtx = "live"

\* C32: a request for which an upstream call is made either passed the
\* validator with a valid token, or its path starts with one of the three
\* auth-service entries of the allowlist
C32_UnauthenticatedUpstream ==
    plCalls.upstream > 0 =>
        \/ (AuthDecision(plReq).validated /\ AuthDecision(plReq).kind = "next")
        \/ \E i \in 1..3 : HasPrefix(plReq.path, publicPaths[i])

\* C33: the upstream request built for a routed request has the inbound
\* method, and its URL is the base URL of the resolved service followed by
\* the inbound path and, when there is one, "?" and the inbound query string
C33_UpstreamRequestLine ==
    upReq.built =>
        /\ upReq.method = req.method
        /\ upReq.url = BaseURL[target.service] \o req.path
                          \o (IF req.query = << >> THEN << >> ELSE << "?" >> \o req.query)

\* C34: a request on a non-public path from whose Authorization header a
\* bearer token was extracted is not recorded with the outcome missing and is
\* not answered with the response of a missing credential
C34_MissingOnlyWithoutCredential ==
    (aPc = "done" /\ ~isPublicPath(aReq.path) /\ aExtract.err = << >>) =>
        /\ \A i \in 1..Len(aMetrics) : aMetrics[i] # "missing"
        /\ aW # handleAuthError(NewWriter, "missing")

\* C35: the status and the code a failed request was answered with are those
\* the same failure gets on every other path explored that is routed
\* likewise (to a service, or to none)
C35_ClassificationIgnoresPath ==
    (pc = "done" /\ perr.kind \notin {"none", "copy"}) =>
        \A q \in RequestPaths :
            determineTarget(q).ok = target.ok =>
                LET c == ClassifyProxyError(
                             ErrorString(perr, req.method, q, determineTarget(q).url))
                IN  /\ w.status = c.status
                    /\ w.body[1].code = c.code

\* C36: once the status and headers of the upstream response are sent and
\* ProxyRequest has returned, no step changes the status, the headers or the
\* body the client receives
C36_SingleResponseSource ==
    [][(pc = "failed" /\ w.wroteHeader) =>
           (w'.status = w.status /\ w'.sent = w.sent /\ w'.body = w.body)]_vars

\* C37: whatever the Retries setting, when ProxyRequest has returned an error
\* for a request that resolved to a route, at least one upstream attempt was
\* made
C37_AtLeastOneAttempt ==
    (target.ok /\ perr.kind # "none") => Attempts >= 1

\* C38: the X-Forwarded-For value of the upstream request built for a
\* request is the client identifier the rate limiter derives from the same
\* request
C38_SameClientIdentifier ==
    upReq.built =>
        HeaderGet(upReq.headers, Hdr.xForwardedFor) = rlGetClientIP(req)

\* C39: between the critical sections of getLimiter and cleanup the registry
\* and the access times have the same clients as keys, every registered
\* client's bucket is one of the limiters created, and its access time is
\* not in the future
C39_SameKeySet ==
    /\ \A c \in Clients : (c \in DOMAIN limiters) <=> (c \in DOMAIN lastAccess)
    /\ DOMAIN limiters \subseteq Clients
    /\ DOMAIN lastAccess \subseteq Clients
    /\ \A c \in DOMAIN limiters : limiters[c] \in 1..Len(lims)
    /\ \A c \in DOMAIN lastAccess : lastAccess[c] <= now

\* C39 witness: lookups of two clients and a sweep have interleaved: two
\* limiters were created, one client was evicted and the other is still
\* registered with its access time
C39_Witness ==
    /\ Len(lims) = 2
    /\ Cardinality(DOMAIN limiters) = 1
    /\ Cardinality(DOMAIN lastAccess) = 1
    /\ \E i \in Slots : rq[i].pc = "done"
    /\ ~tickPending /\ now > 0

\* C40: a step of the handler of a request of client A (its lookup, its
\* Allow with either result, and the two steps of its rejection) leaves
\* every other registered client B registered with the same limiter, the
\* same token count and the same access time; and a step that is no sweep
\* removes no client
C40_OtherClientsUntouched ==
    [][/\ \A i \in Slots :
              rq'[i] # rq[i] =>
                  \A b \in DOMAIN limiters :
                      b # rq'[i].client =>
                          /\ b \in DOMAIN limiters' /\ b \in DOMAIN lastAccess'
                          /\ limiters'[b] = limiters[b]
                          /\ lims'[limiters[b]] = lims[limiters[b]]
                          /\ lastAccess'[b] = lastAccess[b]
       /\ ~CleanupStep =>
              /\ DOMAIN limiters \subseteq DOMAIN limiters'
              /\ DOMAIN lastAccess \subseteq DOMAIN lastAccess']_vars

\* C40 witness: a request of one client was admitted and another rejected
\* after a second client had registered at an earlier time, and that client
\* still has its full bucket and its access time
C40_Witness ==
    \E i \in Slots : \E j \in Slots : \E b \in DOMAIN limiters :
        /\ i # j
        /\ rq[i].pc = "done" /\ rq[i].allowed /\ rq[i].client # b
        /\ rq[j].pc = "done" /\ ~rq[j].allowed /\ rq[j].client = rq[i].client
        /\ rq[j].w.status = 429
        /\ lims[limiters[b]].tokens = burstSize * TicksPerSecond
        /\ lastAccess[b] < now
        /\ lastAccess[b] < lastAccess[rq[i].client]

====
